---------------------------- MODULE Spec2Model ----------------------------
(***************************************************************************)
(* State-machine model of the lifecycle event producer                     *)
(* (github.com/SCKelemen/lifecycle): PII detection and redaction           *)
(* (helpers.go), event construction and emission (producer.go), the styled *)
(* sink (styled output) and the colour registry (colors.go).               *)
(*                                                                         *)
(* Encoding of Go values.  A Go string is a tuple of one-character         *)
(* strings, so that the regular expressions of the PII detector can be     *)
(* run on it.  An interface{} payload value is a tagged tuple:             *)
(*   <<"str", s>>   a string          <<"int", n>>   a non-string scalar   *)
(*   <<"nil">>      nil               <<"map", f>>   map[string]interface{}*)
(*   <<"seq", t>>   []interface{}                                          *)
(***************************************************************************)
EXTENDS Integers, Sequences, FiniteSets, TLC

(***************************************************************************)
(* Characters and character classes used by the detector's patterns.       *)
(***************************************************************************)
Digits == {"0", "1", "2", "3", "4", "5", "6", "7", "8", "9"}

LowerAlpha == {"a", "b", "c", "d", "e", "f", "g", "h", "i", "j", "k", "l", "m",
               "n", "o", "p", "q", "r", "s", "t", "u", "v", "w", "x", "y", "z"}

UpperAlpha == {"A", "B", "C", "D", "E", "F", "G", "H", "I", "J", "K", "L", "M",
               "N", "O", "P", "Q", "R", "S", "T", "U", "V", "W", "X", "Y", "Z"}

Alpha == LowerAlpha \cup UpperAlpha

\* The class \s.
WhiteSpace == {" ", "\t", "\n", "\f", "\r"}

\* Case folding of one character, as done by the (?i) flag.
ToLowerChar(c) ==
    CASE c = "A" -> "a" [] c = "B" -> "b" [] c = "C" -> "c" [] c = "D" -> "d"
      [] c = "E" -> "e" [] c = "F" -> "f" [] c = "G" -> "g" [] c = "H" -> "h"
      [] c = "I" -> "i" [] c = "J" -> "j" [] c = "K" -> "k" [] c = "L" -> "l"
      [] c = "M" -> "m" [] c = "N" -> "n" [] c = "O" -> "o" [] c = "P" -> "p"
      [] c = "Q" -> "q" [] c = "R" -> "r" [] c = "S" -> "s" [] c = "T" -> "t"
      [] c = "U" -> "u" [] c = "V" -> "v" [] c = "W" -> "w" [] c = "X" -> "x"
      [] c = "Y" -> "y" [] c = "Z" -> "z" [] OTHER -> c

ToLower(s) == [i \in 1..Len(s) |-> ToLowerChar(s[i])]

(***************************************************************************)
(* A small regular-expression engine.  A pattern is one of                 *)
(*   <<"set", S>>          one character of the set S                      *)
(*   <<"any">>             one character but a line break (the pattern ".")*)
(*   <<"cat", <<r..>>>>    concatenation                                   *)
(*   <<"alt", <<r..>>>>    alternation                                     *)
(*   <<"rep", r, lo, hi>>  r repeated lo..hi times (hi = -1: unbounded)    *)
(* EndsOf(re, s, P) is the set of positions at which a match of re that    *)
(* starts at a position of P can end (positions are indices of the next    *)
(* unread character).                                                      *)
(***************************************************************************)
RECURSIVE EndsOf(_, _, _)
RECURSIVE EndsOfCat(_, _, _, _)
RECURSIVE EndsOfRep(_, _, _, _, _, _)

EndsOfCat(rs, k, s, P) ==
    IF k > Len(rs) THEN P ELSE EndsOfCat(rs, k + 1, s, EndsOf(rs[k], s, P))

EndsOfRep(r, n, lo, hi, s, P) ==
    (IF n >= lo THEN P ELSE {})
      \cup (IF P # {} /\ (hi = -1 \/ n < hi)
            THEN EndsOfRep(r, n + 1, lo, hi, s, EndsOf(r, s, P))
            ELSE {})

EndsOf(re, s, P) ==
    CASE re[1] = "set" -> {p + 1 : p \in {q \in P : q <= Len(s) /\ s[q] \in re[2]}}
      [] re[1] = "any" -> {p + 1 : p \in {q \in P : q <= Len(s) /\ s[q] # "\n"}}
      [] re[1] = "cat" -> EndsOfCat(re[2], 1, s, P)
      [] re[1] = "alt" -> UNION {EndsOf(re[2][k], s, P) : k \in 1..Len(re[2])}
      [] re[1] = "rep" -> EndsOfRep(re[2], 0, re[3], re[4], s, P)

\* regexp.MatchString for a pattern anchored with ^ and $.
FullMatch(re, s) == (Len(s) + 1) \in EndsOf(re, s, {1})

\* regexp.MatchString for an unanchored pattern: a match anywhere in s.
SearchMatch(re, s) == EndsOf(re, s, 1..(Len(s) + 1)) # {}

\* Pattern constructors.
Ch(c) == <<"set", {c}>>
Opt(r) == <<"rep", r, 0, 1>>
Exactly(r, n) == <<"rep", r, n, n>>
Plus(r) == <<"rep", r, 1, -1>>
Dot == <<"any">>
Digit == <<"set", Digits>>

\* A word of a field-name pattern: "." stands for any character.
Word(w) == <<"cat", [i \in 1..Len(w) |-> IF w[i] = "." THEN Dot ELSE Ch(w[i])]>>

(***************************************************************************)
(* NewPIIDetector: the default patterns.  The field-name patterns carry    *)
(* the (?i) flag and are not anchored; the value patterns are anchored.    *)
(***************************************************************************)
piiFieldPatterns == <<
    <<"alt", <<Word(<<"e", "m", "a", "i", "l">>),
               Word(<<"e", "-", "m", "a", "i", "l">>)>>>>,
    <<"alt", <<Word(<<"p", "h", "o", "n", "e">>),
               Word(<<"t", "e", "l", "e", "p", "h", "o", "n", "e">>),
               Word(<<"m", "o", "b", "i", "l", "e">>)>>>>,
    <<"alt", <<Word(<<"s", "s", "n">>),
               Word(<<"s", "o", "c", "i", "a", "l", ".", "s", "e", "c", "u", "r", "i", "t", "y">>)>>>>,
    <<"alt", <<Word(<<"c", "r", "e", "d", "i", "t", ".", "c", "a", "r", "d">>),
               Word(<<"c", "a", "r", "d", ".", "n", "u", "m", "b", "e", "r">>)>>>>,
    <<"alt", <<Word(<<"p", "a", "s", "s", "w", "o", "r", "d">>),
               Word(<<"p", "a", "s", "s", "w", "d">>),
               Word(<<"p", "w", "d">>)>>>>,
    <<"alt", <<Word(<<"s", "e", "c", "r", "e", "t">>),
               Word(<<"t", "o", "k", "e", "n">>),
               Word(<<"k", "e", "y">>)>>>>,
    <<"alt", <<Word(<<"a", "d", "d", "r", "e", "s", "s">>),
               Word(<<"s", "t", "r", "e", "e", "t">>),
               Word(<<"c", "i", "t", "y">>),
               Word(<<"z", "i", "p">>),
               Word(<<"p", "o", "s", "t", "a", "l">>)>>>>,
    <<"alt", <<Word(<<"n", "a", "m", "e">>),
               Word(<<"f", "i", "r", "s", "t", "n", "a", "m", "e">>),
               Word(<<"l", "a", "s", "t", "n", "a", "m", "e">>),
               Word(<<"f", "u", "l", "l", "n", "a", "m", "e">>)>>>>,
    <<"alt", <<Word(<<"d", "o", "b">>),
               Word(<<"d", "a", "t", "e", ".", "o", "f", ".", "b", "i", "r", "t", "h">>),
               Word(<<"b", "i", "r", "t", "h", "d", "a", "t", "e">>)>>>>,
    <<"alt", <<Word(<<"i", "p", ".", "a", "d", "d", "r", "e", "s", "s">>),
               Word(<<"i", "p", "_", "a", "d", "d", "r">>)>>>>
>>

EmailLocalChars == Alpha \cup Digits \cup {".", "_", "%", "+", "-"}
EmailDomainChars == Alpha \cup Digits \cup {".", "-"}
Separator == <<"set", {"-", "."} \cup WhiteSpace>>
CardSeparator == <<"set", WhiteSpace \cup {"-"}>>

piiValuePatterns == <<
    \* ^[a-zA-Z0-9._%+\-]+@[a-zA-Z0-9.\-]+\.[a-zA-Z]{2,}$
    <<"cat", <<Plus(<<"set", EmailLocalChars>>), Ch("@"),
               Plus(<<"set", EmailDomainChars>>), Ch("."),
               <<"rep", <<"set", Alpha>>, 2, -1>> >>>>,
    \* ^\+?[1-9]\d{1,14}$
    <<"cat", <<Opt(Ch("+")), <<"set", Digits \ {"0"}>>, <<"rep", Digit, 1, 14>> >>>>,
    \* ^\(?\d{3}\)?[-.\s]?\d{3}[-.\s]?\d{4}$
    <<"cat", <<Opt(Ch("(")), Exactly(Digit, 3), Opt(Ch(")")), Opt(Separator),
               Exactly(Digit, 3), Opt(Separator), Exactly(Digit, 4)>>>>,
    \* ^\d{4}[\s\-]?\d{4}[\s\-]?\d{4}[\s\-]?\d{4}$
    <<"cat", <<Exactly(Digit, 4), Opt(CardSeparator), Exactly(Digit, 4),
               Opt(CardSeparator), Exactly(Digit, 4), Opt(CardSeparator),
               Exactly(Digit, 4)>>>>,
    \* ^\d{3}-?\d{2}-?\d{4}$
    <<"cat", <<Exactly(Digit, 3), Opt(Ch("-")), Exactly(Digit, 2), Opt(Ch("-")),
               Exactly(Digit, 4)>>>>
>>

\* The field names and strings that occur in the payloads of the model.
K_id == <<"i", "d">>
K_user == <<"u", "s", "e", "r">>
K_tags == <<"t", "a", "g", "s">>
K_email == <<"e", "m", "a", "i", "l">>
K_SSN == <<"S", "S", "N">>

S_hello == <<"h", "e", "l", "l", "o">>
S_email == <<"a", "@", "b", ".", "i", "o">>
S_phone == <<"4", "2", "5">>

\* NewRedactor: the default redaction marker "[REDACTED]".
redactionString == <<"[", "R", "E", "D", "A", "C", "T", "E", "D", "]">>

\* The loop of PIIDetector.IsPIIField: some field pattern matches the
\* lower-cased field name.
MatchesFieldPattern(fieldName) ==
    \E k \in 1..Len(piiFieldPatterns) :
        SearchMatch(piiFieldPatterns[k], ToLower(fieldName))

\* The loop of PIIDetector.IsPIIValue: some value pattern matches the
\* string.
MatchesValuePattern(str) ==
    \E k \in 1..Len(piiValuePatterns) : FullMatch(piiValuePatterns[k], str)

\* The verdicts of the two loops on the names and strings of the model,
\* computed once.
fieldVerdicts ==
    [name \in {K_id, K_user, K_tags, K_email, K_SSN} |-> MatchesFieldPattern(name)]
valueVerdicts ==
    [str \in {S_hello, S_email, S_phone, redactionString} |-> MatchesValuePattern(str)]

\* PIIDetector.IsPIIField.
IsPIIField(fieldName) ==
    IF fieldName \in DOMAIN fieldVerdicts THEN fieldVerdicts[fieldName]
    ELSE MatchesFieldPattern(fieldName)

\* PIIDetector.IsPIIValue: the value is a string and some value pattern
\* matches it.
IsPIIValue(value) ==
    /\ value[1] = "str"
    /\ IF value[2] \in DOMAIN valueVerdicts THEN valueVerdicts[value[2]]
       ELSE MatchesValuePattern(value[2])

(***************************************************************************)
(* Redactor (helpers.go).                                                  *)
(***************************************************************************)
\* The marker as a payload value.
Marker == <<"str", redactionString>>

\* A Redact that cuts the last character of a sensitive string instead of
\* replacing the string.
Redact_Truncate(value) ==
    IF value[1] = "str" /\ IsPIIValue(value)
    THEN <<"str", SubSeq(value[2], 1, Len(value[2]) - 1)>>
    ELSE value

\* Redactor.Redact: nil stays nil; a string that matches a value pattern of
\* a fresh default detector becomes the marker; anything else is returned
\* as it is.
Redact(value) ==
    IF value[1] = "nil" THEN value
    ELSE IF value[1] = "str" /\ IsPIIValue(value) THEN Marker
    ELSE value

RECURSIVE RedactMap(_)
RECURSIVE RedactSlice(_)

\* A RedactMap that does not look at the field names.
RedactMap_NoFieldCheck(data) ==
    IF data[1] = "nil" THEN data
    ELSE <<"map",
           [key \in DOMAIN data[2] |->
              LET value == data[2][key] IN
              IF IsPIIValue(value) THEN Marker
              ELSE IF value[1] = "map" THEN RedactMap(value)
              ELSE IF value[1] = "seq" THEN RedactSlice(value)
              ELSE value]>>

\* Redactor.RedactMap, with the producer's detector.
RedactMap(data) ==
    IF data[1] = "nil" THEN data
    ELSE <<"map",
           [key \in DOMAIN data[2] |->
              LET value == data[2][key] IN
              IF IsPIIField(key) THEN Marker
              ELSE IF IsPIIValue(value) THEN Marker
              ELSE IF value[1] = "map" THEN RedactMap(value)
              ELSE IF value[1] = "seq" THEN RedactSlice(value)
              ELSE value]>>

\* Redactor.RedactSlice.
RedactSlice(slice) ==
    IF slice[1] = "nil" THEN slice
    ELSE <<"seq",
           [i \in 1..Len(slice[2]) |->
              LET value == slice[2][i] IN
              IF IsPIIValue(value) THEN Marker
              ELSE IF value[1] = "map" THEN RedactMap(value)
              ELSE value]>>

\* A RedactParams that drops the sensitive parameters.
RedactParams_Drop(params) ==
    IF params[1] = "nil" THEN params
    ELSE LET Kept(param) == ~IsPIIValue(param)
         IN  <<"seq", SelectSeq(params[2], Kept)>>

\* Redactor.RedactParams.
RedactParams(params) ==
    IF params[1] = "nil" THEN params
    ELSE <<"seq",
           [i \in 1..Len(params[2]) |->
              LET param == params[2][i] IN
              IF IsPIIValue(param) THEN Marker ELSE param]>>

(***************************************************************************)
(* Schema annotations.  FieldAnnotations is a record of the four flags;    *)
(* schemaAnnotations is a function from field names to FieldAnnotations    *)
(* (a nil map is the function with the empty domain).                      *)
(***************************************************************************)
ShouldRedact(annotations) ==
    annotations.PII \/ annotations.Redactable \/ annotations.Encrypted
        \/ annotations.Sensitive

RECURSIVE redactData(_, _)

\* Producer.redactData.
redactData(data, schemaAnnotations) ==
    IF data[1] = "nil" THEN data
    ELSE <<"map",
           [key \in DOMAIN data[2] |->
              LET value == data[2][key]
                  hasAnnotations == key \in DOMAIN schemaAnnotations
                  byAnnotations ==
                      hasAnnotations /\ ShouldRedact(schemaAnnotations[key])
                  shouldRedact ==
                      byAnnotations \/ IsPIIField(key) \/ IsPIIValue(value)
              IN  IF shouldRedact THEN Redact(value)
                  ELSE IF value[1] = "map"
                       THEN redactData(value, schemaAnnotations)
                  ELSE IF value[1] = "seq"
                       THEN <<"seq",
                              [i \in 1..Len(value[2]) |->
                                 LET item == value[2][i] IN
                                 IF item[1] = "map"
                                 THEN redactData(item, schemaAnnotations)
                                 ELSE IF IsPIIValue(item) THEN Redact(item)
                                 ELSE item]>>
                  ELSE value]>>

(***************************************************************************)
(* Constructors of payload values.                                         *)
(***************************************************************************)
Nil == <<"nil">>
\* A value json.Marshal has no encoding for (a channel, a function).
Chan == <<"chan">>
Str(s) == <<"str", s>>
Num(n) == <<"int", n>>
Map(f) == <<"map", f>>
List(t) == <<"seq", t>>

(***************************************************************************)
(* Inputs of the model: payloads, annotations, resources, options.          *)
(***************************************************************************)
\* Payloads passed as resourceData / finalData.
Payloads == <<
    Nil,
    Map(K_id :> Str(S_hello) @@ K_email :> Str(S_hello)),
    Map(K_id :> Str(S_phone) @@ K_SSN :> Num(7)),
    Map(K_id :> Str(S_email) @@ K_user :> Nil),
    Map(K_id :> Num(7)
        @@ K_user :> Map(K_email :> Str(S_email) @@ K_id :> Str(S_hello))),
    Map(K_id :> Map(K_user :> Str(S_hello))
        @@ K_tags :> List(<<Str(S_email), Str(S_hello), Map(K_email :> Str(S_hello))>>)),
    Map(K_id :> List(<<Str(S_hello)>>)
        @@ K_tags :> List(<<List(<<Str(S_email), Map(K_email :> Str(S_hello))>>)>>)),
    Map(K_user :> Map(K_user :> Map(K_email :> Str(S_hello) @@ K_tags :> Num(7)))),
    Map(K_tags :> Chan)
>>

\* Payloads of EmitResourceUpdated (previousData, newData).
UpdatePayloads == <<
    Nil,
    Map(K_id :> Str(S_hello) @@ K_email :> Str(S_hello)),
    Map(K_user :> Map(K_email :> Str(S_email) @@ K_id :> Str(S_hello)))
>>

\* Query parameters of EmitQueryStarted.
ParamLists == <<
    Nil,
    List(<<>>),
    List(<<Str(S_email), Str(S_hello), Num(7)>>),
    List(<<Map(K_email :> Str(S_email))>>),
    List(<<Map(K_id :> Str(S_email)), Str(S_phone)>>),
    List(<<List(<<Str(S_email)>>), Nil>>)
>>

Flags(pii, encrypted, redactable, sensitive) ==
    [PII |-> pii, Encrypted |-> encrypted, Redactable |-> redactable,
     Sensitive |-> sensitive]

NoFlags == Flags(FALSE, FALSE, FALSE, FALSE)

\* Schema annotations passed by the caller: the nil map, entries with no
\* flag set, and entries with one flag each.
AnnotationMaps == <<
    <<>>,
    K_id :> NoFlags @@ K_email :> NoFlags,
    K_id :> Flags(TRUE, FALSE, FALSE, FALSE)
        @@ K_email :> Flags(FALSE, TRUE, FALSE, FALSE)
        @@ K_tags :> Flags(FALSE, FALSE, TRUE, FALSE)
        @@ K_SSN :> Flags(FALSE, FALSE, FALSE, TRUE)
>>

\* The variadic api argument: absent, empty, or one identifier.
APIArgs == {<<>>, <<"">>, <<"Users">>}

\* *Resource: nil, or a resource with an empty or a non-empty type.
NilResource == [nil |-> TRUE, Type |-> "", ID |-> ""]
NewResource(resourceType, id) == [nil |-> FALSE, Type |-> resourceType, ID |-> id]
Resources == {NilResource, NewResource("", "r1"), NewResource("Order", "r1")}

\* *Actor.
NewActor(userID, actorType) == [UserID |-> userID, ActorType |-> actorType]
Actors == {NewActor("u1", "human")}

CorrelationIDs == {"req-1"}
StatusCodes == {0, 200, 500, 600}
DurationsMs == {-5, 0, 10}

ErrorCodes == {"", "E42"}
RowCounts == {0, 3}

\* Producer-level default API (WithAPI), "" when the option is not used.
DefaultAPIs == {"", "Billing"}

\* Values returned by time.Now(); 0 stands for the zero instant.
MaxTime == 1
\* The number of events a producer with telemetry counts.
MaxCalls == 1
Instants == 1..MaxTime

(***************************************************************************)
(* Event types.                                                            *)
(***************************************************************************)
ServiceStarted == <<"s", "e", "r", "v", "i", "c", "e", ".", "s", "t", "a", "r", "t", "e", "d">>
RequestHandled == <<"a", "p", "i", ".", "r", "e", "q", "u", "e", "s", "t", ".", "h", "a", "n", "d", "l", "e", "d">>
RequestErrored == <<"a", "p", "i", ".", "r", "e", "q", "u", "e", "s", "t", ".", "e", "r", "r", "o", "r", "e", "d">>
QueryStarted == <<"d", "b", ".", "q", "u", "e", "r", "y", ".", "s", "t", "a", "r", "t", "e", "d">>
QueryCompleted == <<"d", "b", ".", "q", "u", "e", "r", "y", ".", "c", "o", "m", "p", "l", "e", "t", "e", "d">>
QueryErrored == <<"d", "b", ".", "q", "u", "e", "r", "y", ".", "e", "r", "r", "o", "r", "e", "d">>
ResourceCreated == <<"r", "e", "s", "o", "u", "r", "c", "e", ".", "c", "r", "e", "a", "t", "e", "d">>
ResourceUpdated == <<"r", "e", "s", "o", "u", "r", "c", "e", ".", "u", "p", "d", "a", "t", "e", "d">>
ResourceDeleted == <<"r", "e", "s", "o", "u", "r", "c", "e", ".", "d", "e", "l", "e", "t", "e", "d">>

(***************************************************************************)
(* The producer (producer.go).                                             *)
(*                                                                         *)
(* producer  the Producer built by NewProducer: service, api (WithAPI),    *)
(*           host, styled (WithStyledOutput; styled.on = FALSE when the    *)
(*           option is not used), otel (FALSE: WithOTelIntegration(nil))   *)
(* pc        where the Emit* call in progress stands: "idle", then         *)
(*           "redact", "telemetry", "emit" (the three parts of emitEvent), *)
(*           "done" (emitEvent has returned)                               *)
(* args      the arguments of the call in progress                         *)
(* event     the event built by the call in progress                       *)
(* output    what the call has written to the producer's writer            *)
(* jsonOutput what it has written to the styled output's JSON writer       *)
(* terminal  what it has logged to the styled output's logger              *)
(* span      the OpenTelemetry span of the call: "none", "open", "closed"  *)
(* spanName  the name the span was started with                            *)
(* metrics   the instruments recorded by the call, <<name, value>>         *)
(* err       the error returned by the call                                *)
(* failed    the writers on which a write of the call has failed           *)
(* meter     the instruments of the OTelIntegration (the keys of its       *)
(*           counter and histogram maps) with the total added to each      *)
(*           counter and the number of samples of each histogram           *)
(* callers   the position of each concurrent caller in RecordMetric        *)
(* prevented PreventDirectLogging has replaced the standard loggers        *)
(* routed    what became of each message logged, in order                  *)
(* masked    the last call of a masking utility: its argument and the      *)
(*           string it returned, as sequences of bytes                     *)
(***************************************************************************)
VARIABLES producer, pc, args, event, output, jsonOutput, terminal, span,
          spanName, metrics, err, failed, meter, callers, prevented, routed,
          masked

vars == <<producer, pc, args, event, output, jsonOutput, terminal, span,
          spanName, metrics, err, failed, meter, callers, prevented, routed,
          masked>>

\* The Status constants.
StatusSuccess == "success"
StatusError == "error"

NoArgs == [op |-> "none"]
NoEvent == [Base |-> [EventType |-> <<>>]]

\* The zero time.Time.
ZeroInstant == 0

\* A base event whose timestamp is left at the zero instant.
createBaseEvent_ZeroTime(eventType, correlationID, metadata, api, now) ==
    LET apiID == IF Len(api) > 0 /\ api[1] # "" THEN api[1] ELSE producer.api
    IN  [EventType |-> eventType,
         Timestamp |-> ZeroInstant,
         Service |-> producer.service,
         API |-> apiID,
         Host |-> producer.host,
         CorrelationID |-> correlationID,
         Metadata |-> metadata]

\* Producer.createBaseEvent; api is the variadic argument, now the value of
\* time.Now().
createBaseEvent(eventType, correlationID, metadata, api, now) ==
    LET apiID == IF Len(api) > 0 /\ api[1] # "" THEN api[1] ELSE producer.api
    IN  [EventType |-> eventType,
         Timestamp |-> now,
         Service |-> producer.service,
         API |-> apiID,
         Host |-> producer.host,
         CorrelationID |-> correlationID,
         Metadata |-> metadata]

\* An API identifier that ignores the resource.
apiID_NoFallback(api, resource) ==
    IF Len(api) > 0 /\ api[1] # "" THEN api[1] ELSE ""

\* The API identifier computed by EmitRequestHandled and the three
\* EmitResource* operations before they call createBaseEvent.
apiID(api, resource) ==
    IF Len(api) > 0 /\ api[1] # "" THEN api[1]
    ELSE IF ~resource.nil /\ resource.Type # "" THEN resource.Type
    ELSE ""

\* No event implements EventWithData.
IsEventWithData_None(e) == FALSE

\* The events that implement EventWithData (have a RedactPII method).
IsEventWithData(e) ==
    e.Base.EventType \in {ResourceCreated, ResourceUpdated, ResourceDeleted}

\* A RedactPII that leaves the event as it is.
RedactPII_Skip(e) == e

\* RedactPII of ResourceCreatedEvent, ResourceUpdatedEvent and
\* ResourceDeletedEvent.
RedactPII(e) ==
    CASE e.Base.EventType = ResourceCreated ->
           [e EXCEPT !.ResourceData = RedactMap(@)]
      [] e.Base.EventType = ResourceUpdated ->
           [e EXCEPT !.PreviousData = RedactMap(@), !.NewData = RedactMap(@)]
      [] e.Base.EventType = ResourceDeleted ->
           [e EXCEPT !.FinalData = RedactMap(@)]

(***************************************************************************)
(* json.Marshal of an event: the JSON object as a function from member     *)
(* names to values.  Payload values keep their tagged form (a map is a     *)
(* JSON object, a slice an array, nil is null).                            *)
(***************************************************************************)
EmptyObject == [k \in {} |-> Nil]

\* One member of a JSON object; a member tagged omitempty is left out when
\* its value is empty.
Member(name, value, omitted) == IF omitted THEN EmptyObject ELSE name :> value

\* The empty values of omitempty for maps and slices: nil or of length 0.
IsEmptyValue(v) ==
    \/ v[1] = "nil"
    \/ v[1] = "map" /\ DOMAIN v[2] = {}
    \/ v[1] = "seq" /\ Len(v[2]) = 0

\* The api member of the base object.
MarshalAPI(base) == Member("api", base.API, base.API = "")

\* BaseEvent.
MarshalBase(base) ==
    Member("event_type", base.EventType, FALSE)
      @@ Member("timestamp", base.Timestamp, FALSE)
      @@ Member("service", base.Service, FALSE)
      @@ MarshalAPI(base)
      @@ Member("host", base.Host, FALSE)
      @@ Member("correlation_id", base.CorrelationID, base.CorrelationID = "")
      @@ Member("metadata", base.Metadata, IsEmptyValue(base.Metadata))

Marshal(e) ==
    Member("base", MarshalBase(e.Base), FALSE) @@
    CASE e.Base.EventType = ServiceStarted ->
           Member("version", e.Version, FALSE) @@ Member("pid", e.PID, FALSE)
      [] e.Base.EventType = RequestHandled ->
           Member("actor", e.Actor, FALSE)
             @@ Member("resource", e.Resource, e.Resource.nil)
             @@ Member("status", e.Status, FALSE)
             @@ Member("duration_ms", e.DurationMs, FALSE)
             @@ Member("status_code", e.StatusCode, FALSE)
             @@ Member("response_size_bytes", e.ResponseSizeBytes,
                       e.ResponseSizeBytes = 0)
      [] e.Base.EventType = RequestErrored ->
           Member("status", e.Status, FALSE)
             @@ Member("error_message", e.ErrorMessage, FALSE)
             @@ Member("error_code", e.ErrorCode, e.ErrorCode = "")
             @@ Member("status_code", e.StatusCode, FALSE)
             @@ Member("duration_ms", e.DurationMs, FALSE)
      [] e.Base.EventType = QueryStarted ->
           Member("query_id", e.QueryID, FALSE)
             @@ Member("query", e.Query, FALSE)
             @@ Member("params", e.Params, IsEmptyValue(e.Params))
      [] e.Base.EventType = QueryCompleted ->
           Member("query_id", e.QueryID, FALSE)
             @@ Member("duration_ms", e.DurationMs, FALSE)
             @@ Member("rows_affected", e.RowsAffected, e.RowsAffected = 0)
      [] e.Base.EventType = QueryErrored ->
           Member("query_id", e.QueryID, FALSE)
             @@ Member("error_message", e.ErrorMessage, FALSE)
             @@ Member("error_code", e.ErrorCode, e.ErrorCode = "")
             @@ Member("duration_ms", e.DurationMs, FALSE)
      [] e.Base.EventType = ResourceCreated ->
           Member("actor", e.Actor, FALSE)
             @@ Member("resource", e.Resource, FALSE)
             @@ Member("resource_data", e.ResourceData, IsEmptyValue(e.ResourceData))
      [] e.Base.EventType = ResourceUpdated ->
           Member("actor", e.Actor, FALSE)
             @@ Member("resource", e.Resource, FALSE)
             @@ Member("previous_data", e.PreviousData, IsEmptyValue(e.PreviousData))
             @@ Member("new_data", e.NewData, IsEmptyValue(e.NewData))
             @@ Member("updated_fields", e.UpdatedFields, Len(e.UpdatedFields) = 0)
      [] e.Base.EventType = ResourceDeleted ->
           Member("actor", e.Actor, FALSE)
             @@ Member("resource", e.Resource, FALSE)
             @@ Member("soft_delete", e.SoftDelete, FALSE)
             @@ Member("final_data", e.FinalData, IsEmptyValue(e.FinalData))

(***************************************************************************)
(* OpenTelemetry integration.                                              *)
(***************************************************************************)
RECURSIVE splitFrom(_, _, _)
\* strings.Split(s, "."): cur is the segment being read from position i.
splitFrom(s, i, cur) ==
    IF i > Len(s) THEN <<cur>>
    ELSE IF s[i] = "." THEN <<cur>> \o splitFrom(s, i + 1, <<>>)
    ELSE splitFrom(s, i + 1, Append(cur, s[i]))

splitEventType(eventType) == splitFrom(eventType, 1, <<>>)

\* A span name made of the first segment only.
getSpanName_FirstSegment(eventType) == splitEventType(eventType)[1]

\* OTelIntegration.getSpanName.
getSpanName(eventType) ==
    LET parts == splitEventType(eventType) IN
    IF Len(parts) >= 2 THEN parts[1] \o <<".">> \o parts[2] ELSE eventType

\* A RecordMetric that samples every non-zero duration.
RecordMetric_NonZero(eventType, duration) ==
    <<[instrument |-> "counter", name |-> eventType \o <<".", "c", "o", "u", "n", "t">>,
       value |-> 1]>>
      \o (IF duration # 0
          THEN <<[instrument |-> "histogram",
                  name |-> eventType \o <<".", "d", "u", "r", "a", "t", "i", "o", "n">>,
                  value |-> duration]>>
          ELSE <<>>)

\* OTelIntegration.RecordMetric: the counter, and the duration histogram
\* when the duration is positive (the duration is kept in milliseconds).
RecordMetric(eventType, duration) ==
    <<[instrument |-> "counter", name |-> eventType \o <<".", "c", "o", "u", "n", "t">>,
       value |-> 1]>>
      \o (IF duration > 0
          THEN <<[instrument |-> "histogram",
                  name |-> eventType \o <<".", "d", "u", "r", "a", "t", "i", "o", "n">>,
                  value |-> duration]>>
          ELSE <<>>)

\* The instruments of a new OTelIntegration: none.
NewMeter == [counter |-> <<>>, histogram |-> <<>>]

\* The total of a counter, the number of samples of a histogram; 0 for an
\* instrument the map does not hold yet.
Total(m, name) == IF name \in DOMAIN m THEN m[name] ELSE 0

RECURSIVE Accumulate(_, _)
\* The meter after the instruments of one RecordMetric call: the
\* instrument is created and stored in its map when the map does not hold
\* it, then the counter is added to, the histogram given one sample.
Accumulate(m, recorded) ==
    IF recorded = <<>> THEN m
    ELSE LET r == Head(recorded)
             next ==
                 IF r.instrument = "counter"
                 THEN [m EXCEPT !.counter =
                          (r.name :> Total(m.counter, r.name) + r.value) @@ @]
                 ELSE [m EXCEPT !.histogram =
                          (r.name :> Total(m.histogram, r.name) + 1) @@ @]
         IN  Accumulate(next, Tail(recorded))

RECURSIVE SumOver(_, _)
SumOver(f, names) ==
    IF names = {} THEN 0
    ELSE LET name == CHOOSE n \in names : TRUE
         IN  f[name] + SumOver(f, names \ {name})

\* The number of events counted so far, over all event kinds.
TotalCount(m) == SumOver(m.counter, DOMAIN m.counter)

\* No masking utility has been called.
NoMask == [op |-> "none"]

\* The callers of the concurrent model and the state of one that is not
\* in a call.
Callers == {1, 2}
IdleCaller == [pc |-> "idle"]

(***************************************************************************)
(* Colour registry (colors.go): four maps from a key to a colour.          *)
(***************************************************************************)
defaultStatusColors ==
    [status \in {"success", "error", "warning", "info", "pending", "in_progress",
                 "completed", "failed", "cancelled", "created", "updated",
                 "deleted"} |->
        CASE status \in {"success", "completed"} -> "#00FF00"
          [] status \in {"error", "failed", "deleted"} -> "#FF0000"
          [] status \in {"warning", "updated"} -> "#FFA500"
          [] status \in {"info", "created"} -> "#00BFFF"
          [] status = "pending" -> "#FFFF00"
          [] status = "in_progress" -> "#9370DB"
          [] status = "cancelled" -> "#808080"]

NoColors == [k \in {} |-> ""]

NewColorRegistry ==
    [serviceColors |-> NoColors, apiColors |-> NoColors,
     eventColors |-> NoColors, statusColors |-> defaultStatusColors]

\* Lookup in a Go map[string]string: the zero value "" for a missing key.
Lookup(m, k) == IF k \in DOMAIN m THEN m[k] ELSE ""

GetServiceColor(r, service) == Lookup(r.serviceColors, service)
GetAPIColor(r, api) == Lookup(r.apiColors, api)
GetEventColor(r, eventType) == Lookup(r.eventColors, eventType)
\* A status lookup without the gray default.
GetStatusColor_NoDefault(r, status) == Lookup(r.statusColors, status)
GetStatusColor(r, status) ==
    IF status \in DOMAIN r.statusColors THEN r.statusColors[status] ELSE "#808080"

\* FormatWithColor: the text itself without a colour, the rendered text
\* otherwise.
FormatWithColor(text, color) ==
    IF color = "" THEN <<"plain", text>> ELSE <<"colored", text, color>>

(***************************************************************************)
(* Styled output.                                                          *)
(***************************************************************************)
ErrorWords == <<<<"e", "r", "r", "o", "r">>,
    <<"e", "r", "r", "o", "r", "e", "d">>,
    <<"f", "a", "i", "l", "e", "d">>,
    <<"c", "r", "a", "s", "h", "e", "d">>>>
WarnWords == <<<<"w", "a", "r", "n">>,
    <<"w", "a", "r", "n", "i", "n", "g">>>>
DebugWords == <<<<"d", "e", "b", "u", "g">>,
    <<"t", "r", "a", "c", "e">>>>
InfoWords == <<<<"s", "t", "a", "r", "t", "e", "d">>,
    <<"c", "o", "m", "p", "l", "e", "t", "e", "d">>,
    <<"h", "a", "n", "d", "l", "e", "d">>,
    <<"c", "r", "e", "a", "t", "e", "d">>,
    <<"u", "p", "d", "a", "t", "e", "d">>,
    <<"d", "e", "l", "e", "t", "e", "d">>>>

\* contains(s, substrings...): some substring occurs in s.
contains(s, substrings) ==
    \E k \in 1..Len(substrings) :
        /\ Len(s) >= Len(substrings[k])
        /\ \E i \in 0..(Len(s) - Len(substrings[k])) :
              SubSeq(s, i + 1, i + Len(substrings[k])) = substrings[k]

\* StyledOutput.eventTypeToLevel.
eventTypeToLevel(eventType) ==
    CASE contains(eventType, ErrorWords) -> "error"
      [] ~contains(eventType, ErrorWords) /\ contains(eventType, WarnWords) -> "warn"
      [] ~contains(eventType, ErrorWords \o WarnWords)
           /\ contains(eventType, DebugWords) -> "debug"
      [] OTHER -> "info"

\* StyledOutput.getStatusCodeColor, with the registry of the styled output.
getStatusCodeColor(r, statusCode) ==
    CASE statusCode >= 200 /\ statusCode < 300 -> GetStatusColor(r, "success")
      [] statusCode >= 300 /\ statusCode < 400 -> GetStatusColor(r, "info")
      [] statusCode >= 400 /\ statusCode < 500 -> GetStatusColor(r, "warning")
      [] statusCode >= 500 -> GetStatusColor(r, "error")
      [] OTHER -> ""

\* One key-value pair of the log line, left out when the condition fails.
Pair(key, value, present) == IF present THEN <<<<key, value>>>> ELSE <<>>

\* StyledOutput.addEventSpecificFields.
addEventSpecificFields(r, e) ==
    CASE e.Base.EventType = ServiceStarted ->
           Pair("version", e.Version, e.Version # "") \o Pair("pid", e.PID, e.PID > 0)
      [] e.Base.EventType = RequestHandled ->
           Pair("status_code",
                FormatWithColor(e.StatusCode, getStatusCodeColor(r, e.StatusCode)),
                e.StatusCode > 0)
             \o Pair("duration_ms", e.DurationMs, e.DurationMs > 0)
             \o Pair("response_size_bytes", e.ResponseSizeBytes, e.ResponseSizeBytes > 0)
             \o Pair("actor", e.Actor.UserID, e.Actor.UserID # "")
             \o Pair("resource", e.Resource.ID, ~e.Resource.nil /\ e.Resource.ID # "")
             \o Pair("status", FormatWithColor(e.Status, GetStatusColor(r, e.Status)),
                     e.Status # "")
      [] e.Base.EventType = RequestErrored ->
           Pair("status_code",
                FormatWithColor(e.StatusCode, getStatusCodeColor(r, e.StatusCode)),
                e.StatusCode > 0)
             \o Pair("duration_ms", e.DurationMs, e.DurationMs > 0)
             \o Pair("error", e.ErrorMessage, e.ErrorMessage # "")
             \o Pair("error_code", e.ErrorCode, e.ErrorCode # "")
             \o Pair("status", FormatWithColor(e.Status, GetStatusColor(r, e.Status)),
                     e.Status # "")
      [] e.Base.EventType = QueryStarted ->
           Pair("query_id", e.QueryID, e.QueryID # "")
             \o Pair("query", e.Query, e.Query # "")
      [] e.Base.EventType = QueryCompleted ->
           Pair("query_id", e.QueryID, e.QueryID # "")
             \o Pair("duration_ms", e.DurationMs, e.DurationMs > 0)
             \o Pair("rows_affected", e.RowsAffected, e.RowsAffected > 0)
      [] e.Base.EventType = QueryErrored ->
           Pair("query_id", e.QueryID, e.QueryID # "")
             \o Pair("duration_ms", e.DurationMs, e.DurationMs > 0)
             \o Pair("error", e.ErrorMessage, e.ErrorMessage # "")
             \o Pair("error_code", e.ErrorCode, e.ErrorCode # "")
      [] e.Base.EventType = ResourceCreated ->
           Pair("resource", e.Resource.ID, ~e.Resource.nil /\ e.Resource.ID # "")
             \o Pair("status", FormatWithColor("created", GetStatusColor(r, "created")), TRUE)
      [] e.Base.EventType = ResourceUpdated ->
           Pair("resource", e.Resource.ID, ~e.Resource.nil /\ e.Resource.ID # "")
             \o Pair("status", FormatWithColor("updated", GetStatusColor(r, "updated")), TRUE)
      [] e.Base.EventType = ResourceDeleted ->
           Pair("resource", e.Resource.ID, ~e.Resource.nil /\ e.Resource.ID # "")
             \o Pair("status", FormatWithColor("deleted", GetStatusColor(r, "deleted")), TRUE)

\* StyledOutput.buildFields.
buildFields(r, e) ==
    Pair("service", FormatWithColor(e.Base.Service, GetServiceColor(r, e.Base.Service)),
         e.Base.Service # "")
      \o Pair("api", FormatWithColor(e.Base.API, GetAPIColor(r, e.Base.API)),
              e.Base.API # "")
      \o Pair("host", e.Base.Host, e.Base.Host # "")
      \o Pair("correlation_id", e.Base.CorrelationID, e.Base.CorrelationID # "")
      \o Pair("timestamp", e.Base.Timestamp, e.Base.Timestamp # 0)
      \o addEventSpecificFields(r, e)

\* StyledOutput.writeStyledEvent: the line handed to the logger.
writeStyledEvent(r, e) ==
    [level |-> eventTypeToLevel(e.Base.EventType),
     msg |-> FormatWithColor(e.Base.EventType, GetEventColor(r, e.Base.EventType)),
     fields |-> buildFields(r, e)]

\* StyledOutput configurations: NewStyledOutput(w, opts...) with or without
\* WithJSONOutput and WithJSONOnly; on = FALSE stands for the nil
\* *StyledOutput of a producer built without WithStyledOutput.
NewStyledOutput(withJSONOutput, withJSONOnly) ==
    [on |-> TRUE, jsonOutput |-> withJSONOutput, jsonOnly |-> withJSONOnly,
     colorRegistry |-> NewColorRegistry]
NoStyledOutput ==
    [on |-> FALSE, jsonOutput |-> FALSE, jsonOnly |-> FALSE,
     colorRegistry |-> NewColorRegistry]
StyledOutputs ==
    {NoStyledOutput} \cup
    {NewStyledOutput(j, o) : j \in BOOLEAN, o \in BOOLEAN}

\* NewProducer(service, host, opts...), with its default colour registry.
NewProducer(service, host, api, styled, otel) ==
    [service |-> service, api |-> api, host |-> host, styled |-> styled,
     otel |-> otel, colorRegistry |-> NewColorRegistry]

\* The option WithColorRegistry(registry) applied to a producer.
WithColorRegistry(p, registry) == [p EXCEPT !.colorRegistry = registry]

\* A registry with a colour for the service, for two event kinds and for
\* two statuses.
ColoredRegistry ==
    [serviceColors |-> ("user-service" :> "#3B82F6"),
     apiColors |-> NoColors,
     eventColors |-> (ServiceStarted :> "#3B82F6") @@ (RequestHandled :> "#3B82F6"),
     statusColors |-> ("success" :> "#3B82F6") @@ ("error" :> "#3B82F6")
                         @@ defaultStatusColors]

\* The producers of the model: the service "user-service" under every
\* combination of options, a producer built with an empty service name, and
\* producers given a colour registry of their own.
Producers ==
    {NewProducer("user-service", "pod-1", api, styled, otel) :
        api \in DefaultAPIs, styled \in StyledOutputs, otel \in BOOLEAN}
    \cup {NewProducer("", "pod-1", api, NoStyledOutput, TRUE) : api \in DefaultAPIs}
    \cup {WithColorRegistry(NewProducer("user-service", "pod-1", "", styled, FALSE),
                             ColoredRegistry) :
             styled \in {NoStyledOutput, NewStyledOutput(TRUE, FALSE)}}

(***************************************************************************)
(* Initial state: a producer built by NewProducer with some options, no    *)
(* call in progress.                                                       *)
(***************************************************************************)
Init ==
    /\ producer \in Producers
    /\ pc = "idle"
    /\ args = NoArgs
    /\ event = NoEvent
    /\ output = <<>>
    /\ jsonOutput = <<>>
    /\ terminal = <<>>
    /\ span = "none"
    /\ spanName = <<>>
    /\ metrics = <<>>
    /\ err = "nil"
    /\ failed = {}
    /\ meter = NewMeter
    /\ callers = [c \in Callers |-> IdleCaller]
    /\ prevented = FALSE
    /\ routed = <<>>
    /\ masked = NoMask

\* The step is one of the sequential caller: no concurrent caller moves,
\* nothing is logged and no masking utility is called.
Sequential == UNCHANGED <<callers, prevented, routed, masked>>

\* What an Emit* operation leaves alone when it hands its event to
\* emitEvent.
Unwritten ==
    /\ UNCHANGED <<producer, output, jsonOutput, terminal, span, spanName,
                   metrics, err, failed, meter>>
    /\ Sequential

(***************************************************************************)
(* The Emit* operations, up to their call of emitEvent.                    *)
(***************************************************************************)
EmitServiceStarted ==
    /\ pc = "idle"
    /\ \E now \in Instants :
          /\ args' = [op |-> "EmitServiceStarted", duration |-> 0]
          /\ event' = [Base |-> createBaseEvent(ServiceStarted, "", Nil, <<>>, now),
                       Version |-> "v1", PID |-> 1]
    /\ TotalCount(meter) < MaxCalls
    /\ pc' = "redact"
    /\ Unwritten

\* EmitRequestHandled, were its status derived from the status code.
EmitRequestHandled_CallerStatus ==
    /\ pc = "idle"
    /\ \E correlationID \in CorrelationIDs, actor \in Actors, resource \in Resources,
          statusCode \in StatusCodes, durationMs \in DurationsMs, api \in APIArgs,
          now \in Instants :
          /\ args' = [op |-> "EmitRequestHandled", resource |-> resource, api |-> api,
                      duration |-> durationMs]
          /\ event' = [Base |-> createBaseEvent(RequestHandled, correlationID, Nil,
                                                <<apiID(api, resource)>>, now),
                       Actor |-> actor,
                       Resource |-> resource,
                       Status |-> IF statusCode >= 500 THEN StatusError ELSE StatusSuccess,
                       DurationMs |-> durationMs,
                       StatusCode |-> statusCode,
                       ResponseSizeBytes |-> 0]
    /\ TotalCount(meter) < MaxCalls
    /\ pc' = "redact"
    /\ Unwritten

EmitRequestHandled ==
    /\ pc = "idle"
    /\ \E correlationID \in CorrelationIDs, actor \in Actors, resource \in Resources,
          statusCode \in StatusCodes, durationMs \in DurationsMs, api \in APIArgs,
          now \in Instants :
          /\ args' = [op |-> "EmitRequestHandled", resource |-> resource, api |-> api,
                      duration |-> durationMs]
          /\ event' = [Base |-> createBaseEvent(RequestHandled, correlationID, Nil,
                                                <<apiID(api, resource)>>, now),
                       Actor |-> actor,
                       Resource |-> resource,
                       Status |-> StatusSuccess,
                       DurationMs |-> durationMs,
                       StatusCode |-> statusCode,
                       ResponseSizeBytes |-> 0]
    /\ TotalCount(meter) < MaxCalls
    /\ pc' = "redact"
    /\ Unwritten

EmitRequestErrored ==
    /\ pc = "idle"
    /\ \E correlationID \in CorrelationIDs, errorCode \in ErrorCodes,
          statusCode \in StatusCodes, durationMs \in DurationsMs, api \in APIArgs,
          now \in Instants :
          /\ args' = [op |-> "EmitRequestErrored", api |-> api, duration |-> durationMs]
          /\ event' = [Base |-> createBaseEvent(RequestErrored, correlationID, Nil, api,
                                                now),
                       Status |-> StatusError,
                       ErrorMessage |-> "boom",
                       ErrorCode |-> errorCode,
                       StatusCode |-> statusCode,
                       DurationMs |-> durationMs]
    /\ TotalCount(meter) < MaxCalls
    /\ pc' = "redact"
    /\ Unwritten

EmitQueryStarted ==
    /\ pc = "idle"
    /\ \E i \in 1..Len(ParamLists), now \in Instants :
          LET params == ParamLists[i]
              redactedParams == RedactParams(params)
          IN  /\ args' = [op |-> "EmitQueryStarted", params |-> params,
                          duration |-> 0]
              /\ event' = [Base |-> createBaseEvent(QueryStarted, "", Nil, <<>>, now),
                           QueryID |-> "q1",
                           Query |-> "SELECT",
                           Params |-> redactedParams]
    /\ TotalCount(meter) < MaxCalls
    /\ pc' = "redact"
    /\ Unwritten

EmitQueryCompleted ==
    /\ pc = "idle"
    /\ \E durationMs \in DurationsMs, rowsAffected \in RowCounts, now \in Instants :
          /\ args' = [op |-> "EmitQueryCompleted", duration |-> durationMs]
          /\ event' = [Base |-> createBaseEvent(QueryCompleted, "", Nil, <<>>, now),
                       QueryID |-> "q1",
                       DurationMs |-> durationMs,
                       RowsAffected |-> rowsAffected]
    /\ TotalCount(meter) < MaxCalls
    /\ pc' = "redact"
    /\ Unwritten

EmitQueryErrored ==
    /\ pc = "idle"
    /\ \E errorCode \in ErrorCodes, durationMs \in DurationsMs, now \in Instants :
          /\ args' = [op |-> "EmitQueryErrored", duration |-> durationMs]
          /\ event' = [Base |-> createBaseEvent(QueryErrored, "", Nil, <<>>, now),
                       QueryID |-> "q1",
                       ErrorMessage |-> "boom",
                       ErrorCode |-> errorCode,
                       DurationMs |-> durationMs]
    /\ TotalCount(meter) < MaxCalls
    /\ pc' = "redact"
    /\ Unwritten

EmitResourceCreated ==
    /\ pc = "idle"
    /\ \E correlationID \in CorrelationIDs, actor \in Actors, resource \in Resources,
          d \in 1..Len(Payloads), a \in 1..Len(AnnotationMaps), api \in APIArgs,
          now \in Instants :
          LET resourceData == Payloads[d]
              schemaAnnotations == AnnotationMaps[a]
              redactedData == redactData(resourceData, schemaAnnotations)
          IN  /\ args' = [op |-> "EmitResourceCreated", resource |-> resource,
                          api |-> api, duration |-> 0,
                          schemaAnnotations |-> schemaAnnotations,
                          data |-> <<resourceData>>]
              /\ event' = [Base |-> createBaseEvent(ResourceCreated, correlationID, Nil,
                                                    <<apiID(api, resource)>>, now),
                           Actor |-> actor,
                           Resource |-> resource,
                           ResourceData |-> redactedData]
    /\ TotalCount(meter) < MaxCalls
    /\ pc' = "redact"
    /\ Unwritten

EmitResourceUpdated ==
    /\ pc = "idle"
    /\ \E correlationID \in CorrelationIDs, actor \in Actors, resource \in Resources,
          d1 \in 1..Len(UpdatePayloads), d2 \in 1..Len(UpdatePayloads),
          a \in 1..Len(AnnotationMaps), api \in APIArgs, now \in Instants :
          LET previousData == UpdatePayloads[d1]
              newData == UpdatePayloads[d2]
              schemaAnnotations == AnnotationMaps[a]
              redactedPrevious == redactData(previousData, schemaAnnotations)
              redactedNew == redactData(newData, schemaAnnotations)
          IN  /\ args' = [op |-> "EmitResourceUpdated", resource |-> resource,
                          api |-> api, duration |-> 0,
                          schemaAnnotations |-> schemaAnnotations,
                          data |-> <<previousData, newData>>]
              /\ event' = [Base |-> createBaseEvent(ResourceUpdated, correlationID, Nil,
                                                    <<apiID(api, resource)>>, now),
                           Actor |-> actor,
                           Resource |-> resource,
                           PreviousData |-> redactedPrevious,
                           NewData |-> redactedNew,
                           UpdatedFields |-> <<"id">>]
    /\ TotalCount(meter) < MaxCalls
    /\ pc' = "redact"
    /\ Unwritten

EmitResourceDeleted ==
    /\ pc = "idle"
    /\ \E correlationID \in CorrelationIDs, actor \in Actors, resource \in Resources,
          d \in 1..Len(Payloads), a \in 1..Len(AnnotationMaps), api \in APIArgs,
          now \in Instants :
          LET finalData == Payloads[d]
              schemaAnnotations == AnnotationMaps[a]
              redactedData == redactData(finalData, schemaAnnotations)
          IN  /\ args' = [op |-> "EmitResourceDeleted", resource |-> resource,
                          api |-> api, duration |-> 0,
                          schemaAnnotations |-> schemaAnnotations,
                          data |-> <<finalData>>]
              /\ event' = [Base |-> createBaseEvent(ResourceDeleted, correlationID, Nil,
                                                    <<apiID(api, resource)>>, now),
                           Actor |-> actor,
                           Resource |-> resource,
                           SoftDelete |-> TRUE,
                           FinalData |-> redactedData]
    /\ TotalCount(meter) < MaxCalls
    /\ pc' = "redact"
    /\ Unwritten

(***************************************************************************)
(* Producer.emitEvent, in its three parts, and the return to the caller.   *)
(***************************************************************************)
\* Redact PII before serialization.
RedactStep ==
    /\ pc = "redact"
    /\ event' = IF IsEventWithData(event) THEN RedactPII(event) ELSE event
    /\ pc' = "telemetry"
    /\ UNCHANGED <<producer, args, output, jsonOutput, terminal, span, spanName,
                   metrics, err, failed, meter>>
    /\ Sequential

\* Create the OpenTelemetry span and record the metrics.
TelemetryStep ==
    /\ pc = "telemetry"
    /\ IF producer.otel
       THEN /\ span' = "open"
            /\ spanName' = getSpanName(event.Base.EventType)
            /\ metrics' = RecordMetric(event.Base.EventType, args.duration)
            /\ meter' = Accumulate(meter, RecordMetric(event.Base.EventType,
                                                        args.duration))
       ELSE UNCHANGED <<span, spanName, metrics, meter>>
    /\ pc' = "emit"
    /\ UNCHANGED <<producer, args, event, output, jsonOutput, terminal, err, failed>>
    /\ Sequential

\* StyledOutput.WriteEvent: what it appends to the JSON writer and to the
\* logger.
WriteEventJSON(styled, e) == IF styled.jsonOutput THEN <<Marshal(e)>> ELSE <<>>

\* A styled line rendered with the registry of the producer.
WriteEventStyled_ProducerRegistry(styled, e) ==
    IF styled.jsonOnly THEN <<>> ELSE <<writeStyledEvent(producer.colorRegistry, e)>>

\* A styled line that is rendered in JSON-only mode too.
WriteEventStyled_Always(styled, e) == <<writeStyledEvent(styled.colorRegistry, e)>>
WriteEventStyled(styled, e) ==
    IF styled.jsonOnly THEN <<>> ELSE <<writeStyledEvent(styled.colorRegistry, e)>>

\* json.Marshal succeeds on a value: every value but a channel or function
\* has an encoding.
RECURSIVE Marshalable(_)
Marshalable(v) ==
    CASE v[1] = "chan" -> FALSE
      [] v[1] = "map" -> \A key \in DOMAIN v[2] : Marshalable(v[2][key])
      [] v[1] = "seq" -> \A i \in 1..Len(v[2]) : Marshalable(v[2][i])
      [] OTHER -> TRUE

\* json.Marshal succeeds on an event: its interface{} members are
\* marshalable.
MarshalableEvent(e) ==
    CASE e.Base.EventType = ResourceCreated -> Marshalable(e.ResourceData)
      [] e.Base.EventType = ResourceUpdated ->
           Marshalable(e.PreviousData) /\ Marshalable(e.NewData)
      [] e.Base.EventType = ResourceDeleted -> Marshalable(e.FinalData)
      [] e.Base.EventType = QueryStarted -> Marshalable(e.Params)
      [] OTHER -> TRUE

\* The writers an emission of the producer writes to.
Writers(p) ==
    IF p.styled.on
    THEN (IF p.styled.jsonOutput THEN {"jsonOutput"} ELSE {})
           \cup (IF p.styled.jsonOnly THEN {} ELSE {"terminal"})
    ELSE {"output"}

\* The error values of emitEvent and StyledOutput.WriteEvent.
ErrMarshal == "failed to marshal event"
ErrWrite == "failed to write event"
ErrStyledMarshal == "failed to write styled event: failed to marshal event"
ErrStyledWrite == "failed to write styled event: failed to write JSON event"

\* The deferred span.End(): a span that was started is ended.
spanEnd_Leak(s) == s
spanEnd(s) == IF s = "open" THEN "closed" ELSE s

\* StyledOutput.WriteEvent, when the write to the writer named by fault
\* fails: the JSON record first, then (unless JSON-only) the styled line,
\* whose logger reports no failure.
WriteEvent(fault) ==
    /\ UNCHANGED output
    /\ IF producer.styled.jsonOutput /\ ~MarshalableEvent(event)
       THEN /\ err' = ErrStyledMarshal
            /\ UNCHANGED <<jsonOutput, terminal, failed>>
       ELSE IF producer.styled.jsonOutput /\ fault = "jsonOutput"
       THEN /\ err' = ErrStyledWrite
            /\ failed' = {"jsonOutput"}
            /\ UNCHANGED <<jsonOutput, terminal>>
       ELSE /\ jsonOutput' = jsonOutput \o WriteEventJSON(producer.styled, event)
            /\ err' = "nil"
            /\ IF ~producer.styled.jsonOnly /\ fault = "terminal"
               THEN UNCHANGED terminal /\ failed' = {"terminal"}
               ELSE /\ terminal' = terminal \o WriteEventStyled(producer.styled, event)
                    /\ UNCHANGED failed

\* The JSON branch of emitEvent: marshal the event and print the line.
WriteJSONLine(fault) ==
    /\ UNCHANGED <<jsonOutput, terminal>>
    /\ IF ~MarshalableEvent(event)
       THEN err' = ErrMarshal /\ UNCHANGED <<output, failed>>
       ELSE IF fault = "output"
       THEN err' = ErrWrite /\ failed' = {"output"} /\ UNCHANGED output
       ELSE /\ output' = Append(output, Marshal(event))
            /\ err' = "nil"
            /\ UNCHANGED failed

EmitStep_CountWritten ==
    /\ pc = "emit"
    /\ \E fault \in {"none"} \cup Writers(producer) :
          IF producer.styled.on THEN WriteEvent(fault) ELSE WriteJSONLine(fault)
    /\ span' = spanEnd(span)
    /\ pc' = "done"
    /\ meter' = IF err' = "nil" THEN meter ELSE NewMeter
    /\ UNCHANGED <<producer, args, event, spanName, metrics>>
    /\ Sequential

\* Emit the output (styled or JSON) and return; the deferred span.End()
\* runs on the way out.  Any one of the writers may fail.
EmitStep ==
    /\ pc = "emit"
    /\ \E fault \in {"none"} \cup Writers(producer) :
          IF producer.styled.on THEN WriteEvent(fault) ELSE WriteJSONLine(fault)
    /\ span' = spanEnd(span)
    /\ pc' = "done"
    /\ UNCHANGED <<producer, args, event, spanName, metrics, meter>>
    /\ Sequential

\* The caller has the result; it collects what the call wrote and the
\* producer is ready for the next call.
Return ==
    /\ pc = "done"
    /\ pc' = "idle"
    /\ args' = NoArgs
    /\ event' = NoEvent
    /\ output' = <<>>
    /\ jsonOutput' = <<>>
    /\ terminal' = <<>>
    /\ span' = "none"
    /\ spanName' = <<>>
    /\ metrics' = <<>>
    /\ err' = "nil"
    /\ failed' = {}
    /\ UNCHANGED <<producer, meter>>
    /\ Sequential

Next ==
    \/ EmitServiceStarted
    \/ EmitRequestHandled
    \/ EmitRequestErrored
    \/ EmitQueryStarted
    \/ EmitQueryCompleted
    \/ EmitQueryErrored
    \/ EmitResourceCreated
    \/ EmitResourceUpdated
    \/ EmitResourceDeleted
    \/ RedactStep
    \/ TelemetryStep
    \/ EmitStep
    \/ Return

Spec == Init /\ [][Next]_vars

(***************************************************************************)
(* Colour registration.  The registry is the one the styled output renders *)
(* with; on a producer without styled output the field stands for the      *)
(* producer's own registry, which no emission reads.  A registration       *)
(* leaves its arguments in args.                                           *)
(***************************************************************************)
ServiceKeys == {"user-service", "Users"}
APIKeys == {"Users"}
EventKeys == {RequestErrored}
StatusKeys == {"error", "archived"}
Colors == {"", "#ABCDEF"}

\* A map assignment that keeps an entry the map already has.
MapAssign_KeepFirst(m, k, c) == IF k \in DOMAIN m THEN m ELSE (k :> c) @@ m
\* m[k] = c on a Go map: the entry of k is created or overwritten.
MapAssign(m, k, c) == (k :> c) @@ m

Registering(op, key, color) ==
    /\ pc = "idle"
    /\ args' = [op |-> op, key |-> key, color |-> color]
    /\ UNCHANGED <<pc, event, output, jsonOutput, terminal, span, spanName,
                   metrics, err, failed, meter>>
    /\ Sequential

RegisterServiceColor ==
    \E service \in ServiceKeys, color \in Colors :
        /\ Registering("RegisterServiceColor", service, color)
        /\ producer' = [producer EXCEPT !.styled.colorRegistry.serviceColors =
                                             MapAssign(@, service, color)]

\* A RegisterAPIColor that writes the service mapping as well.
RegisterAPIColor_Shared ==
    \E api \in APIKeys, color \in Colors :
        /\ Registering("RegisterAPIColor", api, color)
        /\ producer' = [producer EXCEPT !.styled.colorRegistry.apiColors =
                                             MapAssign(@, api, color),
                                         !.styled.colorRegistry.serviceColors =
                                             MapAssign(@, api, color)]

RegisterAPIColor ==
    \E api \in APIKeys, color \in Colors :
        /\ Registering("RegisterAPIColor", api, color)
        /\ producer' = [producer EXCEPT !.styled.colorRegistry.apiColors =
                                             MapAssign(@, api, color)]

RegisterEventColor ==
    \E eventType \in EventKeys, color \in Colors :
        /\ Registering("RegisterEventColor", eventType, color)
        /\ producer' = [producer EXCEPT !.styled.colorRegistry.eventColors =
                                             MapAssign(@, eventType, color)]

RegisterStatusColor ==
    \E status \in StatusKeys, color \in Colors :
        /\ Registering("RegisterStatusColor", status, color)
        /\ producer' = [producer EXCEPT !.styled.colorRegistry.statusColors =
                                             MapAssign(@, status, color)]

\* A producer with a styled output and a JSON writer, or with neither, and
\* a fresh registry.
InitColors ==
    /\ Init
    /\ producer.api = ""
    /\ ~producer.otel
    /\ producer.colorRegistry = NewColorRegistry
    /\ producer.styled \in {NoStyledOutput, NewStyledOutput(TRUE, FALSE)}

NextColors ==
    \/ RegisterServiceColor
    \/ RegisterAPIColor
    \/ RegisterEventColor
    \/ RegisterStatusColor
    \/ EmitServiceStarted
    \/ EmitRequestErrored
    \/ RedactStep
    \/ TelemetryStep
    \/ EmitStep
    \/ Return

SpecColors == InitColors /\ [][NextColors]_vars

(***************************************************************************)
(* Standard loggers (logger.go).  A message is logged through the log      *)
(* package, through the default slog logger or through a WrappedLogger;    *)
(* routed records, for each message, the logger, the level, whether        *)
(* PreventDirectLogging had been called, and what became of the message:   *)
(* "event" (an Emit* call on the producer), "unstructured" (a text line    *)
(* on stderr) or "dropped".                                                *)
(***************************************************************************)
LevelDebug == 0 - 4
LevelInfo == 0
LevelWarn == 4
LevelError == 8
Levels == {LevelDebug, LevelInfo, LevelWarn, LevelError}

\* The number of messages logged.
MaxMessages == 3

\* slog.NewTextHandler(os.Stderr, nil): the handler of the fallback logger
\* and, in effect, of the default slog logger before it is replaced; with
\* nil options its minimum level is Info, and an enabled record is written
\* as a line of text on stderr.
TextHandlerStderr(level) ==
    IF level >= LevelInfo THEN "unstructured" ELSE "dropped"

\* logWriter.Write: the bytes are converted to a string that is discarded
\* and the write is reported as complete.
logWriterWrite == "dropped"

\* LifecycleHandler.Handle: the record is discarded and nil returned.
LifecycleHandlerHandle == "dropped"

Logged(via, level, outcome) ==
    /\ Len(routed) < MaxMessages
    /\ routed' = Append(routed, [via |-> via, level |-> level,
                                  prevented |-> prevented, outcome |-> outcome])
    /\ UNCHANGED <<producer, pc, args, event, output, jsonOutput, terminal,
                   span, spanName, metrics, err, failed, meter, callers,
                   prevented, masked>>

\* PreventDirectLogging(producer): log.SetOutput(&logWriter{...}) and
\* slog.SetDefault(slog.New(NewLifecycleHandler(producer))).
PreventDirectLogging ==
    /\ ~prevented
    /\ prevented' = TRUE
    /\ UNCHANGED <<producer, pc, args, event, output, jsonOutput, terminal,
                   span, spanName, metrics, err, failed, meter, callers, routed,
                   masked>>

\* log.Print and its siblings: one Write on the output of the package,
\* stderr until PreventDirectLogging replaces it by the logWriter.
LogPrint ==
    Logged("log", LevelInfo,
           IF prevented THEN logWriterWrite ELSE "unstructured")

\* slog.Log on the default logger: the LifecycleHandler is enabled at
\* every level and handles the record.
SlogLog ==
    \E level \in Levels :
        Logged("slog", level,
               IF prevented THEN LifecycleHandlerHandle
               ELSE TextHandlerStderr(level))

\* WrappedLogger.Log, and Debug, Info, Warn and Error, which call it with
\* their level: l.fallback.Log(nil, level, msg, args...).
WrappedLoggerLog ==
    \E level \in Levels : Logged("WrappedLogger", level, TextHandlerStderr(level))

InitLogging ==
    /\ Init
    /\ producer = NewProducer("user-service", "pod-1", "", NoStyledOutput, FALSE)

NextLogging ==
    \/ PreventDirectLogging
    \/ LogPrint
    \/ SlogLog
    \/ WrappedLoggerLog

SpecLogging == InitLogging /\ [][NextLogging]_vars

(***************************************************************************)
(* Masking utilities (helpers.go).  A Go string is a sequence of bytes;    *)
(* len, indexing and slicing count bytes, and a character outside ASCII    *)
(* takes more than one byte in UTF-8.                                      *)
(***************************************************************************)
At == 64
Star == 42

\* "[REDACTED]" in bytes.
redactionBytes == <<91, 82, 69, 68, 65, 67, 84, 69, 68, 93>>

\* strings.Repeat("*", n).
Repeat(n) == [i \in 1..n |-> Star]

\* string(b) of a byte b: the UTF-8 encoding of the code point b.
StringOfByte(b) ==
    IF b < 128 THEN <<b>> ELSE <<192 + (b \div 64), 128 + (b % 64)>>

\* The positions of the separator in s.
Positions(s, sep) == {i \in 1..Len(s) : s[i] = sep}

\* MaskEmail: strings.Split(email, "@") has two parts exactly when email
\* holds one "@"; local is what precedes it, domain what follows.
MaskEmail(email) ==
    IF email = <<>> THEN email
    ELSE IF Cardinality(Positions(email, At)) # 1 THEN redactionBytes
    ELSE LET at == CHOOSE i \in Positions(email, At) : TRUE
             local == SubSeq(email, 1, at - 1)
             domain == SubSeq(email, at + 1, Len(email))
         IN  IF Len(local) = 0 THEN redactionBytes
             ELSE StringOfByte(local[1]) \o Repeat(Len(local) - 1)
                      \o <<At>> \o domain

\* MaskPhone: phone[:2] + strings.Repeat("*", len(phone)-4) +
\* phone[len(phone)-2:].
MaskPhone(phone) ==
    IF phone = <<>> THEN phone
    ELSE IF Len(phone) <= 4 THEN Repeat(Len(phone))
    ELSE SubSeq(phone, 1, 2) \o Repeat(Len(phone) - 4)
             \o SubSeq(phone, Len(phone) - 1, Len(phone))

\* The characters the arguments are made of, in UTF-8: "a", "1", "+", "@"
\* and the two bytes of U+00E9.
MaskCharacters == {<<97>>, <<49>>, <<43>>, <<At>>, <<195, 169>>}

\* The number of characters of an argument.
MaxLen == 5

RECURSIVE StringsOf(_)
StringsOf(n) ==
    IF n = 0 THEN {<<>>}
    ELSE LET shorter == StringsOf(n - 1)
         IN  shorter \cup {c \o t : c \in MaskCharacters, t \in shorter}

MaskArguments == StringsOf(MaxLen)

Masking(op, argument, result) ==
    /\ masked = NoMask
    /\ masked' = [op |-> op, argument |-> argument, result |-> result]
    /\ UNCHANGED <<producer, pc, args, event, output, jsonOutput, terminal,
                   span, spanName, metrics, err, failed, meter, callers,
                   prevented, routed>>

CallMaskEmail == \E email \in MaskArguments : Masking("MaskEmail", email, MaskEmail(email))

CallMaskPhone == \E phone \in MaskArguments : Masking("MaskPhone", phone, MaskPhone(phone))

NextMasking == CallMaskEmail \/ CallMaskPhone

SpecMasking == InitLogging /\ [][NextMasking]_vars

(***************************************************************************)
(* Concurrent emission (otel.go).  Each caller runs RecordMetric, called   *)
(* by emitEvent, one access of the producer's OTelIntegration at a time:   *)
(* the lookup in the counter map, the store of a counter just created,     *)
(* the Add, and the same for the histogram when the duration is positive.  *)
(* The maps are Go maps without a lock; the instruments themselves are     *)
(* safe for concurrent use.                                                *)
(***************************************************************************)
getCounterName(eventType) == eventType \o <<".", "c", "o", "u", "n", "t">>
getHistogramName(eventType) ==
    eventType \o <<".", "d", "u", "r", "a", "t", "i", "o", "n">>

\* The number of calls started, over all callers.
MaxConcurrentCalls == 3

CounterSteps == {"counterLookup", "counterStore", "counterAdd"}
HistogramSteps == {"histogramLookup", "histogramStore", "histogramRecord"}

\* The calls that have not added to their counter yet.
Uncounted == {c \in Callers : callers[c].pc \in CounterSteps}

\* What a write of a map conflicts with: any access of the same map by
\* another caller.
Conflict(writer, other) ==
    \/ /\ callers[writer].pc = "counterStore"
       /\ callers[other].pc \in {"counterLookup", "counterStore"}
    \/ /\ callers[writer].pc = "histogramStore"
       /\ callers[other].pc \in {"histogramLookup", "histogramStore"}

Racing ==
    \E writer \in Callers :
        \E other \in Callers \ {writer} : Conflict(writer, other)

Stepping(c, next) ==
    /\ callers' = [callers EXCEPT ![c] = next]
    /\ UNCHANGED <<producer, pc, args, event, output, jsonOutput, terminal,
                   span, spanName, metrics, err, failed, prevented, routed,
                   masked>>

\* emitEvent reaches p.otel.RecordMetric(spanCtx, eventType, duration).
CallRecordMetric(c) ==
    \E eventType \in {ServiceStarted, RequestHandled}, duration \in {0, 10} :
        /\ callers[c].pc = "idle"
        /\ TotalCount(meter) + Cardinality(Uncounted) < MaxConcurrentCalls
        /\ Stepping(c, [pc |-> "counterLookup", eventType |-> eventType,
                        duration |-> duration])
        /\ UNCHANGED meter

\* counter, ok := o.counter[counterName]; a counter is created if !ok.
CounterLookup(c) ==
    /\ callers[c].pc = "counterLookup"
    /\ Stepping(c, [callers[c] EXCEPT !.pc =
                       IF getCounterName(callers[c].eventType) \in DOMAIN meter.counter
                       THEN "counterAdd" ELSE "counterStore"])
    /\ UNCHANGED meter

\* o.counter[counterName] = counter; the meter hands out the same
\* instrument for the same name, so its total is kept.
CounterStore(c) ==
    /\ callers[c].pc = "counterStore"
    /\ LET name == getCounterName(callers[c].eventType)
       IN  meter' = [meter EXCEPT !.counter = (name :> Total(@, name)) @@ @]
    /\ Stepping(c, [callers[c] EXCEPT !.pc = "counterAdd"])

\* counter.Add(ctx, 1), then `if duration > 0`.
CounterAdd(c) ==
    /\ callers[c].pc = "counterAdd"
    /\ LET name == getCounterName(callers[c].eventType)
       IN  meter' = [meter EXCEPT !.counter = (name :> Total(@, name) + 1) @@ @]
    /\ Stepping(c, [callers[c] EXCEPT !.pc =
                       IF callers[c].duration > 0 THEN "histogramLookup"
                                                  ELSE "return"])

\* histogram, ok := o.histogram[histogramName].
HistogramLookup(c) ==
    /\ callers[c].pc = "histogramLookup"
    /\ Stepping(c, [callers[c] EXCEPT !.pc =
                       IF getHistogramName(callers[c].eventType) \in DOMAIN meter.histogram
                       THEN "histogramRecord" ELSE "histogramStore"])
    /\ UNCHANGED meter

\* o.histogram[histogramName] = histogram.
HistogramStore(c) ==
    /\ callers[c].pc = "histogramStore"
    /\ LET name == getHistogramName(callers[c].eventType)
       IN  meter' = [meter EXCEPT !.histogram = (name :> Total(@, name)) @@ @]
    /\ Stepping(c, [callers[c] EXCEPT !.pc = "histogramRecord"])

\* histogram.Record(ctx, duration.Seconds()).
HistogramRecord(c) ==
    /\ callers[c].pc = "histogramRecord"
    /\ LET name == getHistogramName(callers[c].eventType)
       IN  meter' = [meter EXCEPT !.histogram = (name :> Total(@, name) + 1) @@ @]
    /\ Stepping(c, [callers[c] EXCEPT !.pc = "return"])

\* RecordMetric returns to emitEvent.
ReturnRecordMetric(c) ==
    /\ callers[c].pc = "return"
    /\ Stepping(c, IdleCaller)
    /\ UNCHANGED meter

\* A write of a map concurrent with another access of it is a data race:
\* the accesses may take effect one after the other, as the steps above
\* have them, or the runtime detects the race and ends the process
\* ("fatal error: concurrent map writes").
FatalError ==
    /\ Racing
    /\ callers' = [c \in Callers |-> [pc |-> "crashed"]]
    /\ UNCHANGED <<producer, pc, args, event, output, jsonOutput, terminal,
                   span, spanName, metrics, err, failed, meter, prevented,
                   routed, masked>>

InitConcurrent ==
    /\ Init
    /\ producer = NewProducer("user-service", "pod-1", "", NoStyledOutput, TRUE)

NextConcurrent ==
    \/ \E c \in Callers : CallRecordMetric(c)
    \/ \E c \in Callers : CounterLookup(c)
    \/ \E c \in Callers : CounterStore(c)
    \/ \E c \in Callers : CounterAdd(c)
    \/ \E c \in Callers : HistogramLookup(c)
    \/ \E c \in Callers : HistogramStore(c)
    \/ \E c \in Callers : HistogramRecord(c)
    \/ \E c \in Callers : ReturnRecordMetric(c)
    \/ FatalError

SpecConcurrent == InitConcurrent /\ [][NextConcurrent]_vars

(***************************************************************************)
(* Vocabulary of the properties.                                           *)
(***************************************************************************)
ResourceOps == {"EmitResourceCreated", "EmitResourceUpdated", "EmitResourceDeleted"}

\* The JSON members that carry the payloads of args.data, in order.
DataMembers ==
    CASE args.op = "EmitResourceCreated" -> <<"resource_data">>
      [] args.op = "EmitResourceUpdated" -> <<"previous_data", "new_data">>
      [] args.op = "EmitResourceDeleted" -> <<"final_data">>

\* The JSON records written by the call in progress, to either JSON sink.
Written == output \o jsonOutput

\* A member of a written record; a member left out by omitempty reads as
\* null.
MemberOr(rec, name) == IF name \in DOMAIN rec THEN rec[name] ELSE Nil

\* P(in, out) holds of every payload passed to the resource operation in
\* progress and of what every written record carries for it.
ForAllEmitted(P(_, _)) ==
    args.op \in ResourceOps =>
        \A j \in 1..Len(Written), i \in 1..Len(args.data) :
            P(args.data[i], MemberOr(Written[j], DataMembers[i]))

ExistsEmitted(P(_, _)) ==
    /\ args.op \in ResourceOps
    /\ \E j \in 1..Len(Written), i \in 1..Len(args.data) :
            P(args.data[i], MemberOr(Written[j], DataMembers[i]))

IsMarkerAt(out, key) ==
    out[1] = "map" /\ key \in DOMAIN out[2] /\ out[2][key] = Marker

IsScalar(v) == v[1] \in {"str", "int", "nil"}

HasEntry(key) == key \in DOMAIN args.schemaAnnotations
MarkedByMetadata(key) == HasEntry(key) /\ ShouldRedact(args.schemaAnnotations[key])
MatchesDetector(key, value) == IsPIIField(key) \/ IsPIIValue(value)

(***************************************************************************)
(* C1.  Every top-level payload field that the sensitivity metadata marks  *)
(* (an entry with pii, encrypted, redactable or sensitive true) carries    *)
(* the redaction marker in every record written by EmitResourceCreated,    *)
(* EmitResourceUpdated and EmitResourceDeleted, whatever its value.        *)
(***************************************************************************)
C1_MarkedFieldsAreRedacted ==
    ForAllEmitted(LAMBDA in, out :
        in[1] = "map" =>
            \A key \in DOMAIN in[2] : MarkedByMetadata(key) => IsMarkerAt(out, key))

RECURSIVE FallbackApplied(_, _)
FallbackApplied(in, out) ==
    in[1] = "map" =>
        \A key \in DOMAIN in[2] :
            IF ~HasEntry(key) /\ MatchesDetector(key, in[2][key])
            THEN IsMarkerAt(out, key)
            ELSE (in[2][key][1] = "map" /\ out[1] = "map" /\ key \in DOMAIN out[2])
                    => FallbackApplied(in[2][key], out[2][key])

C3_HeuristicFallback == ForAllEmitted(FallbackApplied)

\* A record has been written in which a field without entry is the marker
\* by its name alone, and one in which a field is the marker by its value
\* alone.
C3_Witness ==
    /\ pc = "done"
    /\ ExistsEmitted(LAMBDA in, out :
          /\ in[1] = "map"
          /\ \E key \in DOMAIN in[2] :
                /\ ~HasEntry(key)
                /\ \/ IsPIIField(key) /\ ~IsPIIValue(in[2][key])
                   \/ ~IsPIIField(key) /\ IsPIIValue(in[2][key])
                /\ IsMarkerAt(out, key))

(***************************************************************************)
(* C4.  Redaction precedes every sink write.  No sink holds anything       *)
(* before the output part of emitEvent has run; from the end of the        *)
(* redaction part on, hence when the output part runs, the payloads of the *)
(* event are the redaction of the payloads passed in (and the params of a  *)
(* query event are redacted from the start); and what a JSON sink receives *)
(* is the serialization of that redacted event.                            *)
(***************************************************************************)
\* The payloads the event in progress carries, in the order of args.data.
EventPayloads ==
    CASE args.op = "EmitResourceCreated" -> <<event.ResourceData>>
      [] args.op = "EmitResourceUpdated" -> <<event.PreviousData, event.NewData>>
      [] args.op = "EmitResourceDeleted" -> <<event.FinalData>>

\* A payload as json.Marshal writes it under omitempty.
AsMember(v) == IF IsEmptyValue(v) THEN Nil ELSE v

C4_RedactionBeforeWrite ==
    /\ (Len(output) + Len(jsonOutput) + Len(terminal) > 0) => pc = "done"
    /\ (args.op \in ResourceOps /\ pc \in {"telemetry", "emit", "done"}) =>
          \A i \in 1..Len(args.data) :
              EventPayloads[i] = RedactMap(redactData(args.data[i], args.schemaAnnotations))
    /\ ForAllEmitted(LAMBDA in, out :
          out = AsMember(RedactMap(redactData(in, args.schemaAnnotations))))
    /\ args.op = "EmitQueryStarted" =>
          /\ event.Params = RedactParams(args.params)
          /\ \A j \in 1..Len(Written) :
                MemberOr(Written[j], "params") = AsMember(RedactParams(args.params))

\* In dual mode (styled line and JSON record) a resource event has been
\* written whose payload differs from the payload passed in.
C4_Witness ==
    /\ pc = "done"
    /\ producer.styled.on
    /\ Len(jsonOutput) = 1
    /\ Len(terminal) = 1
    /\ ExistsEmitted(LAMBDA in, out : in[1] = "map" /\ out # in)

(***************************************************************************)
(* C5.  Redaction is fully recursive over sequences: in every written      *)
(* payload, at every depth and also for a sequence that is an element of a *)
(* sequence, no sequence element is a string of sensitive shape and every  *)
(* sequence element that is a mapping is redacted field by field.          *)
(***************************************************************************)
FieldwiseRedacted(m) ==
    \A key \in DOMAIN m[2] : MatchesDetector(key, m[2][key]) => m[2][key] = Marker

RECURSIVE SequencesRedacted(_)
SequencesRedacted(v) ==
    CASE v[1] = "map" -> \A key \in DOMAIN v[2] : SequencesRedacted(v[2][key])
      [] v[1] = "seq" ->
           \A i \in 1..Len(v[2]) :
               /\ ~IsPIIValue(v[2][i])
               /\ v[2][i][1] = "map" => FieldwiseRedacted(v[2][i])
               /\ SequencesRedacted(v[2][i])
      [] OTHER -> TRUE

C5_SequencesFullyRedacted == ForAllEmitted(LAMBDA in, out : SequencesRedacted(out))

(***************************************************************************)
(* C6.  Nested mappings: when a top-level field that neither its name nor  *)
(* the metadata nor its value marks holds a mapping, the written record    *)
(* keeps the outer key, every sensitive field inside the mapping (marked   *)
(* by the metadata, by its name or by its value, at any depth) is the      *)
(* marker, and the scalar fields that are not sensitive are unchanged.     *)
(***************************************************************************)
RECURSIVE NestedRedacted(_, _)
NestedRedacted(in, out) ==
    /\ out[1] = "map"
    /\ DOMAIN out[2] = DOMAIN in[2]
    /\ \A key \in DOMAIN in[2] :
          IF MarkedByMetadata(key) \/ MatchesDetector(key, in[2][key])
          THEN out[2][key] = Marker
          ELSE IF in[2][key][1] = "map" THEN NestedRedacted(in[2][key], out[2][key])
          ELSE IsScalar(in[2][key]) => out[2][key] = in[2][key]

C6_NestedMappingsRedacted ==
    ForAllEmitted(LAMBDA in, out :
        in[1] = "map" =>
            \A key \in DOMAIN in[2] :
                (/\ ~MarkedByMetadata(key)
                 /\ ~MatchesDetector(key, in[2][key])
                 /\ in[2][key][1] = "map")
                    => (/\ out[1] = "map"
                        /\ key \in DOMAIN out[2]
                        /\ NestedRedacted(in[2][key], out[2][key])))

(***************************************************************************)
(* C7.  EmitQueryStarted: in every written record no element of params is  *)
(* a string of sensitive shape, and every element of params that is a      *)
(* mapping is redacted field by field.                                     *)
(***************************************************************************)
C7_ParamsRedacted ==
    args.op = "EmitQueryStarted" =>
        \A j \in 1..Len(Written) :
            LET params == MemberOr(Written[j], "params") IN
            params[1] = "seq" =>
                \A i \in 1..Len(params[2]) :
                    /\ ~IsPIIValue(params[2][i])
                    /\ params[2][i][1] = "map" => FieldwiseRedacted(params[2][i])

(***************************************************************************)
(* C8.  Redaction is idempotent: for every payload and metadata passed to  *)
(* a resource operation, redactData applied to its own result and          *)
(* RedactMap applied to its own result change nothing, and neither does    *)
(* RedactMap applied to a payload already written.                         *)
(***************************************************************************)
C8_RedactionIdempotent ==
    /\ (args.op \in ResourceOps /\ pc = "redact") =>
          \A i \in 1..Len(args.data) :
              LET bySchema == redactData(args.data[i], args.schemaAnnotations)
                  byHeuristics == RedactMap(args.data[i])
              IN  /\ redactData(bySchema, args.schemaAnnotations) = bySchema
                  /\ RedactMap(byHeuristics) = byHeuristics
    /\ ForAllEmitted(LAMBDA in, out : RedactMap(out) = out)

\* A payload has been written that redaction changed, and it holds the
\* marker.
C8_Witness ==
    /\ pc = "done"
    /\ ExistsEmitted(LAMBDA in, out :
          /\ out # in
          /\ out[1] = "map"
          /\ \E key \in DOMAIN out[2] : out[2][key] = Marker /\ in[2][key] # Marker)

(***************************************************************************)
(* C9.  API resolution precedence: the api of the event is the explicit    *)
(* argument when given and not empty, else the producer's default API when *)
(* not empty, else the resource type for resource and request-outcome      *)
(* events, else empty.                                                     *)
(***************************************************************************)
TakesResource == args.op \in ResourceOps \cup {"EmitRequestHandled"}
ExplicitAPI == IF "api" \in DOMAIN args THEN args.api ELSE <<>>

C9_APIPrecedence ==
    pc \notin {"idle"} =>
        event.Base.API =
            (IF Len(ExplicitAPI) > 0 /\ ExplicitAPI[1] # "" THEN ExplicitAPI[1]
             ELSE IF producer.api # "" THEN producer.api
             ELSE IF TakesResource /\ ~args.resource.nil THEN args.resource.Type
             ELSE "")

(***************************************************************************)
(* C10.  Resource-type fallback: on a producer without default API, an     *)
(* event of EmitResourceCreated / Updated / Deleted / EmitRequestHandled   *)
(* built without explicit API (none, or the empty string) has the resource *)
(* type as its api, and an empty api when the resource is nil or its type  *)
(* is empty.                                                               *)
(***************************************************************************)
C10_ResourceTypeFallback ==
    (/\ pc \notin {"idle"}
     /\ TakesResource
     /\ producer.api = ""
     /\ (Len(args.api) = 0 \/ args.api[1] = ""))
        => event.Base.API = (IF args.resource.nil THEN "" ELSE args.resource.Type)

\* An event built without explicit API on a producer without default API
\* carries the type of its resource.
C10_Witness ==
    /\ pc = "done"
    /\ TakesResource
    /\ producer.api = ""
    /\ Len(args.api) = 0
    /\ ~args.resource.nil
    /\ args.resource.Type = "Order"
    /\ event.Base.API = "Order"


\* ------------------------------------------------------------------------
\* Status of outcome events

HasSuffix(t, suffix) ==
    /\ Len(t) >= Len(suffix)
    /\ SubSeq(t, Len(t) - Len(suffix) + 1, Len(t)) = suffix

SucceededKind(t) ==
    \/ HasSuffix(t, <<".", "h", "a", "n", "d", "l", "e", "d">>)
    \/ HasSuffix(t, <<".", "c", "o", "m", "p", "l", "e", "t", "e", "d">>)

ErroredKind(t) == HasSuffix(t, <<".", "e", "r", "r", "o", "r", "e", "d">>)

HasStatus(rec, status) == "status" \in DOMAIN rec /\ rec.status = status

\* C11 (as stated): every written record of a handled or completed event
\* has status success and every written record of an errored event has
\* status error.
C11_OutcomeStatusByKind ==
    \A j \in 1..Len(Written) :
        LET rec == Written[j]
            t == rec.base.event_type
        IN  /\ SucceededKind(t) => HasStatus(rec, StatusSuccess)
            /\ ErroredKind(t) => HasStatus(rec, StatusError)

\* C11 (amended): every written api.request.handled record has status
\* success and every written api.request.errored record has status error,
\* whatever status code, duration, actor, resource and API the caller
\* passed; the record of every other event has no status member, the
\* db.query.completed and db.query.errored records included.
C11_RequestStatusFixedByKind ==
    \A j \in 1..Len(Written) :
        LET rec == Written[j]
            t == rec.base.event_type
        IN  /\ t = RequestHandled => HasStatus(rec, StatusSuccess)
            /\ t = RequestErrored => HasStatus(rec, StatusError)
            /\ t \notin {RequestHandled, RequestErrored} => "status" \notin DOMAIN rec

\* A handled request with status code 500 is written with status success.
C11_Witness ==
    /\ pc = "done"
    /\ args.op = "EmitRequestHandled"
    /\ event.StatusCode = 500
    /\ Len(Written) > 0
    /\ HasStatus(Written[1], StatusSuccess)


\* ------------------------------------------------------------------------
\* Colour resolution

\* The registry the lookups read.
Reg == producer.styled.colorRegistry

\* The step is a call of the registration operation op.
Registered(op) == pc = "idle" /\ pc' = "idle" /\ args'.op = op

StatusProbes == {"success", "error", "warning", "info", "cancelled", "archived",
                 "nonexistent-status"}

\* What a fresh registry resolves a status to.
BuiltinStatusColor(s) ==
    IF s \in DOMAIN defaultStatusColors THEN defaultStatusColors[s] ELSE "#808080"

\* C12 (as stated): whatever was registered, GetStatusColor returns a
\* non-empty colour for every status.
C12_StatusColorNeverEmpty ==
    \A s \in StatusProbes : GetStatusColor(Reg, s) # ""

\* What a step does to the status lookup.
StatusFollowsRegistrations ==
    \A s \in StatusProbes :
        GetStatusColor(Reg', s) =
            IF Registered("RegisterStatusColor") /\ args'.key = s
            THEN args'.color
            ELSE GetStatusColor(Reg, s)

\* C12 (amended): GetStatusColor(s) is non-empty on a fresh registry (the
\* built-in default of s, gray for a status without one), and each
\* RegisterStatusColor(s, c) makes it c, empty when c is empty, and leaves
\* the colour of every other status as it was; no other step changes it.
C12_StatusColorResolution ==
    /\ \A s \in StatusProbes :
          GetStatusColor(Reg, s) = BuiltinStatusColor(s) /\ GetStatusColor(Reg, s) # ""
    /\ [][StatusFollowsRegistrations]_vars

\* An empty colour was registered for a status without default, and the
\* lookup returns it.
C12_Witness ==
    /\ args.op = "RegisterStatusColor"
    /\ args.key = "archived"
    /\ args.color = ""
    /\ GetStatusColor(Reg, "archived") = ""
    /\ GetStatusColor(Reg, "error") = "#ABCDEF"

\* The colour C13 gives a status code; the codes from 100 to 199, which
\* it does not speak of, are left as the code resolves them.
ClaimedStatusCodeColor(r, c) ==
    CASE c >= 200 /\ c <= 299 -> GetStatusColor(r, "success")
      [] c >= 300 /\ c <= 399 -> GetStatusColor(r, "info")
      [] c >= 400 /\ c <= 499 -> GetStatusColor(r, "warning")
      [] c >= 500 /\ c <= 599 -> GetStatusColor(r, "error")
      [] c < 100 \/ c > 599 -> ""
      [] OTHER -> getStatusCodeColor(r, c)

Fields(line) == {line.fields[i] : i \in 1..Len(line.fields)}

\* C13: the status code of a styled api.request.errored line is rendered
\* in the current colour of success for 200-299, info for 300-399,
\* warning for 400-499, error for 500-599, and in no colour below 100 and
\* above 599.
C13_StatusCodeColors ==
    (/\ pc = "done"
     /\ args.op = "EmitRequestErrored"
     /\ event.StatusCode > 0
     /\ Len(terminal) > 0)
    => <<"status_code",
         FormatWithColor(event.StatusCode, ClaimedStatusCodeColor(Reg, event.StatusCode))>>
          \in Fields(terminal[1])

ServiceProbes == ServiceKeys \cup {"user", "USERS", "user-service-2", ""}
APIProbes == APIKeys \cup {"User", "users", ""}
EventProbes == EventKeys \cup {RequestHandled, <<"a", "p", "i">>, <<>>}

\* The entry registered by the call that the step is, if the mapping had
\* it already.
AlreadyRegistered ==
    LET m == CASE args'.op = "RegisterServiceColor" -> Reg.serviceColors
               [] args'.op = "RegisterAPIColor" -> Reg.apiColors
               [] args'.op = "RegisterEventColor" -> Reg.eventColors
               [] args'.op = "RegisterStatusColor" -> Reg.statusColors
    IN  args'.key \in DOMAIN m /\ m[args'.key] = args'.color

\* What a step does to the service, API and event lookups.
LookupsFollowRegistrations ==
    /\ \A k \in ServiceProbes :
          GetServiceColor(Reg', k) =
              IF Registered("RegisterServiceColor") /\ args'.key = k
              THEN args'.color ELSE GetServiceColor(Reg, k)
    /\ \A k \in APIProbes :
          GetAPIColor(Reg', k) =
              IF Registered("RegisterAPIColor") /\ args'.key = k
              THEN args'.color ELSE GetAPIColor(Reg, k)
    /\ \A k \in EventProbes :
          GetEventColor(Reg', k) =
              IF Registered("RegisterEventColor") /\ args'.key = k
              THEN args'.color ELSE GetEventColor(Reg, k)
    /\ (pc = "idle" /\ pc' = "idle" /\ AlreadyRegistered) => Reg' = Reg

\* C14: the service, API and event lookups return the empty string on a
\* fresh registry; a registration of key k with colour c makes the lookup
\* of k in its mapping return c and leaves the lookup of every other key
\* as it was, and no other step changes a lookup; a registration of an
\* entry the mapping already holds leaves the registry as it was.
C14_LastWriteWins ==
    /\ \A k \in ServiceProbes : GetServiceColor(Reg, k) = ""
    /\ \A k \in APIProbes : GetAPIColor(Reg, k) = ""
    /\ \A k \in EventProbes : GetEventColor(Reg, k) = ""
    /\ [][LookupsFollowRegistrations]_vars

\* A service colour was registered for one key after another key of the
\* mapping; each lookup returns the colour of its own key.
C14_Witness ==
    /\ args.op = "RegisterServiceColor"
    /\ args.key = "user-service"
    /\ args.color = "#ABCDEF"
    /\ "Users" \in DOMAIN Reg.serviceColors
    /\ GetServiceColor(Reg, "Users") = ""
    /\ GetServiceColor(Reg, "user-service") = "#ABCDEF"
    /\ GetServiceColor(Reg, "user") = ""

\* What a step leaves alone in the registry.
OnlyOwnMappingChanges ==
    /\ Registered("RegisterServiceColor") =>
          /\ Reg'.apiColors = Reg.apiColors
          /\ Reg'.eventColors = Reg.eventColors
          /\ Reg'.statusColors = Reg.statusColors
    /\ Registered("RegisterAPIColor") =>
          /\ Reg'.serviceColors = Reg.serviceColors
          /\ Reg'.eventColors = Reg.eventColors
          /\ Reg'.statusColors = Reg.statusColors
    /\ Registered("RegisterEventColor") =>
          /\ Reg'.serviceColors = Reg.serviceColors
          /\ Reg'.apiColors = Reg.apiColors
          /\ Reg'.statusColors = Reg.statusColors
    /\ Registered("RegisterStatusColor") =>
          /\ Reg'.serviceColors = Reg.serviceColors
          /\ Reg'.apiColors = Reg.apiColors
          /\ Reg'.eventColors = Reg.eventColors
    /\ ~(pc = "idle" /\ pc' = "idle") => Reg' = Reg

\* C15: a registration changes no mapping but its own, and a step of an
\* emission changes none of the four mappings.
C15_MappingsIndependent == [][OnlyOwnMappingChanges]_vars

\* The key "Users" has a colour as an API and none as a service, and an
\* emission has rendered a styled line with that registry.
C15_Witness ==
    /\ pc = "done"
    /\ Len(terminal) > 0
    /\ GetAPIColor(Reg, "Users") = "#ABCDEF"
    /\ "Users" \notin DOMAIN Reg.serviceColors
    /\ "user-service" \in DOMAIN Reg.serviceColors


\* ------------------------------------------------------------------------
\* Sinks, failures, span and metrics of an emission

\* The styled line was rendered: written, or lost by a failing writer.
Rendered == Len(terminal) > 0 \/ "terminal" \in failed

\* C16: an emission writes to one sink mode.  Without styled output a
\* successful emission has written exactly one JSON record, that of its
\* event, to the producer's writer and nothing elsewhere.  With styled
\* output nothing is written to the producer's writer; after a successful
\* emission the JSON writer, if configured, holds exactly that one record,
\* with or without the JSON-only flag, and the styled line, at most one,
\* was rendered exactly if the JSON-only flag is not set.
C16_OneSinkMode ==
    pc = "done" =>
        IF ~producer.styled.on
        THEN /\ jsonOutput = <<>> /\ terminal = <<>>
             /\ err = "nil" => output = <<Marshal(event)>>
             /\ err # "nil" => output = <<>>
        ELSE /\ output = <<>>
             /\ ~producer.styled.jsonOutput => jsonOutput = <<>>
             /\ (producer.styled.jsonOutput /\ err = "nil")
                    => jsonOutput = <<Marshal(event)>>
             /\ Len(terminal) <= 1
             /\ err = "nil" => (Rendered <=> ~producer.styled.jsonOnly)
             /\ producer.styled.jsonOnly => ~Rendered

\* A successful emission with a JSON writer and the JSON-only flag: one
\* record on the JSON writer, no styled line, nothing on the producer's
\* writer.
C16_Witness ==
    /\ pc = "done"
    /\ producer.styled.on
    /\ producer.styled.jsonOutput
    /\ producer.styled.jsonOnly
    /\ err = "nil"
    /\ jsonOutput = <<Marshal(event)>>
    /\ terminal = <<>>
    /\ output = <<>>

\* C17: with the styled output NewStyledOutput(w, WithJSONOnly()), an
\* emission that returns success has written the JSON record of its event
\* to some output.
C17_JSONOnlyWritesJSON ==
    (/\ pc = "done"
     /\ producer.styled.on
     /\ producer.styled.jsonOnly
     /\ ~producer.styled.jsonOutput
     /\ err = "nil")
    => Marshal(event) \in {Written[j] : j \in 1..Len(Written)}

\* The emission tried to serialize its event and json.Marshal failed.
MarshalFailed ==
    /\ ~MarshalableEvent(event)
    /\ ~producer.styled.on \/ producer.styled.jsonOutput

\* C18: an emission in which the serialization or a write to one of its
\* writers failed returns a non-nil error.
C18_FailuresReported ==
    pc = "done" => ((MarshalFailed \/ failed # {}) => err # "nil")

\* What a step does to the span of the call.
SpanOpenedOnceClosedOnce ==
    /\ span' # span =>
          \/ pc = "telemetry" /\ producer.otel /\ span = "none" /\ span' = "open"
          \/ pc = "emit" /\ span = "open" /\ span' = "closed"
          \/ pc = "done" /\ pc' = "idle" /\ span' = "none"
    /\ (pc = "telemetry" /\ producer.otel) => span' = "open"
    /\ (pc = "emit" /\ producer.otel) => (pc' = "done" /\ span' = "closed")
    /\ (pc = "emit" /\ ~producer.otel) => span' = "none"

\* C19: with telemetry configured an emission opens one span, after the
\* redaction, and closes it once, when the emit step returns, whatever
\* the step returns; a span is open during the emit step only, and no
\* emission has returned with its span open.
C19_SpanReleased ==
    /\ span = "none"
    /\ [][SpanOpenedOnceClosedOnce]_vars
    /\ [](pc = "done" => span = IF producer.otel THEN "closed" ELSE "none")
    /\ [](span = "open" => pc = "emit")

\* An emission with telemetry has failed and its span is closed.
C19_Witness ==
    /\ pc = "done"
    /\ producer.otel
    /\ err # "nil"
    /\ span = "closed"

\* The instruments of one kind recorded by the emission in progress.
Recorded(instrument) ==
    {i \in 1..Len(metrics) : metrics[i].instrument = instrument}

CounterName == event.Base.EventType \o <<".", "c", "o", "u", "n", "t">>
HistogramName == event.Base.EventType \o <<".", "d", "u", "r", "a", "t", "i", "o", "n">>

\* The emission has added exactly 1 to the counter of its event kind.
CountedOnce ==
    /\ Cardinality(Recorded("counter")) = 1
    /\ \A i \in Recorded("counter") :
          metrics[i].name = CounterName /\ metrics[i].value = 1

\* The emission has recorded its duration, once, exactly if sampled holds.
SampledIf(sampled) ==
    /\ Cardinality(Recorded("histogram")) = IF sampled THEN 1 ELSE 0
    /\ \A i \in Recorded("histogram") :
          metrics[i].name = HistogramName /\ metrics[i].value = args.duration

Dots(t) == {i \in 1..Len(t) : t[i] = "."}

\* An event kind cut before its second dot; whole if it has fewer than two
\* dots, that is at most two segments.
FirstTwoSegments(t) ==
    IF Cardinality(Dots(t)) >= 2
    THEN LET first == CHOOSE i \in Dots(t) : \A j \in Dots(t) : i <= j
             second == CHOOSE i \in Dots(t) \ {first} :
                           \A j \in Dots(t) \ {first} : i <= j
         IN  SubSeq(t, 1, second - 1)
    ELSE t

\* Event kinds the emit operations of the model do not build.
KindProbes ==
    {<<"a", "p", "i", ".", "r", "e", "q", "u", "e", "s", "t", ".",
       "r", "e", "c", "e", "i", "v", "e", "d">>,
     <<"d", "b", ".", "t", "r", "a", "n", "s", "a", "c", "t", "i", "o", "n", ".",
       "r", "o", "l", "l", "e", "d", "_", "b", "a", "c", "k">>,
     <<"s", "e", "r", "v", "i", "c", "e">>,
     <<"a", ".", "b", ".", "c", ".", "d">>,
     <<"a", ".", ".", "b">>,
     <<>>}

\* getSpanName on the probes.
ProbesNamed == \A t \in KindProbes : getSpanName(t) = FirstTwoSegments(t)

\* C21: the span of an emission is named by the first two dot-separated
\* segments of its event kind, and so is every event kind by getSpanName;
\* a kind of one or two segments is the name as a whole.
C21_SpanNamedByTwoSegments ==
    /\ ProbesNamed
    /\ span # "none" => spanName = FirstTwoSegments(event.Base.EventType)

\* The span of an api.request.handled emission is named api.request, and
\* the single segment service names itself.
C21_Witness ==
    /\ pc = "done"
    /\ span = "closed"
    /\ event.Base.EventType = RequestHandled
    /\ spanName = <<"a", "p", "i", ".", "r", "e", "q", "u", "e", "s", "t">>
    /\ getSpanName(<<"s", "e", "r", "v", "i", "c", "e">>)
          = <<"s", "e", "r", "v", "i", "c", "e">>


\* ------------------------------------------------------------------------
\* Base envelope

\* The JSON records and the base objects in them.
Records == {Written[j] : j \in 1..Len(Written)}

\* C23 (as stated): every event built has a timestamp other than the zero
\* instant and a non-empty service; its service and host are the
\* producer's.
C23_ServiceNeverEmpty ==
    pc # "idle" =>
        /\ event.Base.Timestamp # ZeroInstant
        /\ event.Base.Service # ""
        /\ event.Base.Service = producer.service
        /\ event.Base.Host = producer.host

\* C23 (amended): every event built has the time of its construction as
\* timestamp, never the zero instant, and the service and host given to
\* NewProducer, so that its service is non-empty exactly if that of the
\* producer is; every written record carries the same three values.
C23_BaseEnvelope ==
    pc # "idle" =>
        /\ event.Base.Timestamp \in Instants
        /\ event.Base.Timestamp # ZeroInstant
        /\ event.Base.Service = producer.service
        /\ event.Base.Host = producer.host
        /\ \A rec \in Records :
              /\ rec.base.timestamp = event.Base.Timestamp
              /\ rec.base.service = producer.service
              /\ rec.base.host = producer.host

\* A producer built with an empty service name has written a record with
\* its timestamp set and its service empty.
C23_Witness ==
    /\ pc = "done"
    /\ producer.service = ""
    /\ \E rec \in Records :
          rec.base.service = "" /\ rec.base.timestamp \in Instants


\* C24: a written record has event_type, timestamp, service and host as
\* members of the record object itself, beside the members of its variant,
\* and no member that nests them.
C24_FlatRecord ==
    \A rec \in Records :
        /\ {"event_type", "timestamp", "service", "host"} \subseteq DOMAIN rec
        /\ "base" \notin DOMAIN rec


\* C25: a service lifecycle event has an empty api field, on a producer
\* with a default API as on one without.
C25_ServiceEventsCarryNoAPI ==
    (pc # "idle" /\ event.Base.EventType = ServiceStarted) => event.Base.API = ""


\* ------------------------------------------------------------------------
\* Redaction builds a copy of the same shape

RECURSIVE ShapeKept(_, _)
\* out has the shape of in: nil for nil, a mapping with the same keys for
\* a mapping, a sequence of the same length for a sequence, each member or
\* element being the marker or of the shape of the one at its place, and
\* any other value itself.
ShapeKept(in, out) ==
    CASE in[1] = "nil" -> out = Nil
      [] in[1] = "map" ->
           /\ out[1] = "map"
           /\ DOMAIN out[2] = DOMAIN in[2]
           /\ \A key \in DOMAIN in[2] :
                 out[2][key] = Marker \/ ShapeKept(in[2][key], out[2][key])
      [] in[1] = "seq" ->
           /\ out[1] = "seq"
           /\ Len(out[2]) = Len(in[2])
           /\ \A i \in 1..Len(in[2]) :
                 out[2][i] = Marker \/ ShapeKept(in[2][i], out[2][i])
      [] OTHER -> out = in

\* The payloads and parameters of the event in progress have the shape of
\* those the caller passed.
RedactedShapeKept ==
    /\ (pc # "idle" /\ args.op \in ResourceOps) =>
          \A i \in 1..Len(args.data) : ShapeKept(args.data[i], EventPayloads[i])
    /\ (pc # "idle" /\ args.op = "EmitQueryStarted") =>
          ShapeKept(args.params, event.Params)

\* No step of a call in progress changes what the caller passed.
ArgumentsKept == (pc # "idle" /\ pc' # "idle") => args' = args

\* C29: the payloads and the params the caller passed are the same after
\* every step of the call, and the redacted payload or params of the event
\* has their shape: nil for nil, the same top-level keys, and every
\* sequence in it as long and in the order of its source.
C29_RedactionKeepsShape ==
    /\ [][ArgumentsKept]_vars
    /\ []RedactedShapeKept

\* A query was written with a parameter replaced by the marker, in a
\* params sequence as long as the one passed, which still holds the
\* parameter.
C29_Witness ==
    /\ pc = "done"
    /\ args.op = "EmitQueryStarted"
    /\ Len(Written) > 0
    /\ args.params = List(<<Str(S_email), Str(S_hello), Num(7)>>)
    /\ event.Params = List(<<Marker, Str(S_hello), Num(7)>>)


\* ------------------------------------------------------------------------
\* The registry of the producer

\* The registries a producer may be given through WithColorRegistry.
ProducerRegistries == {NewColorRegistry, ColoredRegistry}

\* A producer with the registry r, and the same in all else, has the
\* writers and the styled output of the producer, its registry included.
WritesAsWith(r) ==
    LET twin == WithColorRegistry(producer, r) IN
    /\ twin.styled = producer.styled
    /\ Writers(twin) = Writers(producer)

\* What the call has written is the record of its event and the styled
\* line rendered with the registry of the styled output.
WrittenByStyledRegistry ==
    /\ Len(output) + Len(jsonOutput) > 0 =>
          LET record == Marshal(event)
          IN  /\ \A j \in 1..Len(output) : output[j] = record
              /\ \A j \in 1..Len(jsonOutput) : jsonOutput[j] = record
    /\ Len(terminal) > 0 =>
          LET line == writeStyledEvent(producer.styled.colorRegistry, event)
          IN  \A j \in 1..Len(terminal) : terminal[j] = line

\* C30: the records and the styled lines of an emission are those of any
\* producer that differs in the registry given through WithColorRegistry
\* only; the lines are rendered with the registry of the styled output.
C30_ProducerRegistryUnread ==
    /\ WrittenByStyledRegistry
    /\ \A r \in ProducerRegistries : WritesAsWith(r)

\* A producer given a registry with a colour for its service has written
\* a styled line with the service uncoloured, as the registry of its
\* styled output has it.
C30_Witness ==
    /\ pc = "done"
    /\ producer.colorRegistry = ColoredRegistry
    /\ producer.styled.on
    /\ GetServiceColor(producer.styled.colorRegistry, producer.service) = ""
    /\ Len(terminal) = 1
    /\ terminal[1] = writeStyledEvent(NewColorRegistry, event)
    /\ terminal[1] # writeStyledEvent(ColoredRegistry, event)

(***************************************************************************)
(* C26.  After PreventDirectLogging(producer), every message written       *)
(* through the log package or the default slog logger, and every message   *)
(* logged through a WrappedLogger, results in a lifecycle event emitted    *)
(* by the producer: none is dropped, none is written as an unstructured    *)
(* line.                                                                   *)
(***************************************************************************)
C26_LogsBecomeEvents ==
    \A i \in 1..Len(routed) :
        routed[i].prevented => routed[i].outcome = "event"

(***************************************************************************)
(* C27.  MaskEmail on a string with exactly one "@" and a non-empty local  *)
(* part returns the first local character, one "*" per remaining local     *)
(* character, "@" and the unchanged domain; on a non-empty string with no  *)
(* "@", several "@" or an empty local part it returns the redaction        *)
(* marker.  MaskPhone on a string of more than 4 characters keeps the      *)
(* first two and the last two characters and replaces each other           *)
(* character by "*"; on a string of 1 to 4 characters it returns as many   *)
(* "*".  Both return the empty string for the empty string.                *)
(***************************************************************************)
Replacement == 65533

RECURSIVE Characters(_)
\* The code points of a string of bytes in UTF-8, U+FFFD for a byte that
\* starts no well-formed sequence.
Characters(s) ==
    IF s = <<>> THEN <<>>
    ELSE IF s[1] < 128 THEN <<s[1]>> \o Characters(Tail(s))
    ELSE IF /\ s[1] >= 194
            /\ s[1] < 224
            /\ Len(s) >= 2
            /\ s[2] >= 128
            /\ s[2] < 192
         THEN <<(s[1] - 192) * 64 + (s[2] - 128)>> \o Characters(Tail(Tail(s)))
         ELSE <<Replacement>> \o Characters(Tail(s))

ClaimedMaskEmail(email) ==
    IF email = <<>> THEN <<>>
    ELSE IF Cardinality(Positions(email, At)) # 1 THEN redactionBytes
    ELSE LET at == CHOOSE i \in Positions(email, At) : TRUE
         IN  IF at = 1 THEN redactionBytes
             ELSE [i \in 1..Len(email) |->
                      IF i = 1 \/ i >= at THEN email[i] ELSE Star]

ClaimedMaskPhone(phone) ==
    IF Len(phone) <= 4 THEN [i \in 1..Len(phone) |-> Star]
    ELSE [i \in 1..Len(phone) |->
             IF i <= 2 \/ i >= Len(phone) - 1 THEN phone[i] ELSE Star]

C27_MasksByCharacter ==
    /\ masked.op = "MaskEmail" =>
           Characters(masked.result) = ClaimedMaskEmail(Characters(masked.argument))
    /\ masked.op = "MaskPhone" =>
           Characters(masked.result) = ClaimedMaskPhone(Characters(masked.argument))

\* The same on arguments of ASCII characters only.
ASCIIMasksByCharacter ==
    (masked.op # "none" /\ \A i \in 1..Len(masked.argument) : masked.argument[i] < 128)
        => C27_MasksByCharacter

(***************************************************************************)
(* C22.  With a sink writer safe for concurrent writes and no concurrent   *)
(* registration, concurrent Emit* calls on one producer do not conflict    *)
(* on shared state: no emission writes a map held by the producer that     *)
(* another concurrent emission reads or writes.                            *)
(***************************************************************************)
C22_EmissionsDoNotConflict ==
    /\ ~Racing
    /\ \A c \in Callers : callers[c].pc # "crashed"

(***************************************************************************)
(* C28.  Telemetry is recorded before the sink write and is never undone:  *)
(* an Emit* call that returns an error from serialization or from a sink   *)
(* write has still added 1 to the counter of its event kind, and recorded  *)
(* its duration sample if it has one; the counter of an event kind is      *)
(* the number of Emit* calls of that kind, not the number of records       *)
(* written.                                                                *)
(***************************************************************************)
\* The instruments either meter holds.
Instruments(kind) == DOMAIN meter[kind] \cup DOMAIN meter'[kind]

\* The step of a call that records its telemetry adds 1 to the counter of
\* the event kind, one sample to its histogram when the duration is
\* positive, and nothing else; no other step of a call, the write and the
\* return included, changes a counter or a histogram.
CountedBeforeWrite ==
    IF pc = "telemetry" /\ pc' = "emit" /\ producer.otel
    THEN /\ \A name \in Instruments("counter") :
               Total(meter'.counter, name) =
                   Total(meter.counter, name) + IF name = CounterName THEN 1 ELSE 0
         /\ \A name \in Instruments("histogram") :
               Total(meter'.histogram, name) =
                   Total(meter.histogram, name)
                       + IF name = HistogramName /\ args.duration > 0 THEN 1 ELSE 0
    ELSE meter' = meter

\* A call on its way to the write, or returning, has counted its event,
\* whatever it returns.
CountedWhateverReturned ==
    (pc \in {"emit", "done"} /\ producer.otel) =>
        /\ CountedOnce
        /\ SampledIf(args.duration > 0)
        /\ Total(meter.counter, CounterName) >= 1
        /\ args.duration > 0 => Total(meter.histogram, HistogramName) >= 1

===========================================================================
